---------------------------- MODULE Spec2Model ----------------------------
(***************************************************************************)
(* The two game servers of NetworkBaseballGame as state machines.          *)
(*                                                                         *)
(*   duel  variant: baseball_server.c (src/unnamed/part_002) with          *)
(*                  baseball_protocol.h                                    *)
(*   world variant: server.c (src/unnamed/part_001) with protocol.h        *)
(*                  (src/unnamed/part_000) and the rule engine             *)
(*                  game_logic.c (src/game_logic.c)                        *)
(*                                                                         *)
(* Each server is one single-threaded select() loop.  One action of the    *)
(* model is one dispatch of that loop (one call of a handler, with every   *)
(* call it makes).  The only place where a handler is cut in two is the    *)
(* sleep(5) inside end_game, during which the process is blocked with the  *)
(* session in GAME_FINISHED.                                               *)
(*                                                                         *)
(* A handler is an operator from the state it starts in, its decoded input *)
(* and the outcomes of its send_json calls to the state it leaves; the     *)
(* frames it hands to send_json are the field `sent` of that result.       *)
(*                                                                         *)
(* Characters are their ASCII codes, C strings are tuples of codes without *)
(* the terminating NUL, char[4] buffers are 4-tuples.                      *)
(***************************************************************************)
EXTENDS Integers, Sequences, FiniteSets, TLC

\* ------------------------------------------------------------------------
\* Program constants
\* ------------------------------------------------------------------------
MAX_CLIENTS == 2
NUMBER_LENGTH == 3
MAX_ATTEMPTS == 10
BUF_SIZE == 4096
MAX_RETRY_COUNT == 3
NETWORK_TIMEOUT_SEC == 30
HEARTBEAT_INTERVAL_SEC == 10
WORLD_MAX_CLIENTS == 8
END_GAME_SLEEP == 5
\* the listening socket is the first descriptor after stdin, stdout, stderr
LISTEN_FD == 3

\* world variant: protocol.h and game_logic.h
MAP_WIDTH == 16
MAP_HEIGHT == 16
CMD_PLACE_BASE == 1
CMD_PRODUCE_UNIT == 2
CMD_MOVE_UNIT == 3
CMD_ATTACK_UNIT == 4
CMD_REQUEST_STATE == 5
TILE_EMPTY == 0
TILE_RESOURCE == 1
TILE_BASE == 2
TILE_TOWER == 3
UNIT_WORKER == 0
UNIT_SOLDIER == 1
UNIT_TANK == 2
UNIT_DRONE == 3
\* hp of a new base building, and the event_flag of a decided match
BASE_HP == 100
EVENT_GAME_OVER == 99
\* Unit units[100] of PlayerState
UNITS_CAPACITY == 100
\* Building buildings[50] of PlayerState
BUILDINGS_CAPACITY == 50

\* ------------------------------------------------------------------------
\* Bounds of the model
\* ------------------------------------------------------------------------
\* send failures are an input of the environment; the retry_count fields are
\* not driven beyond this total
MaxRetrySeen == 3
\* no participant's attempts counter is driven beyond this value
MaxGuesses == 1
\* no sleep(5) and no idle period starts at or after this time
MaxTime == 1
\* the codes given to calculate_result are drawn from the digits '0' .. '0' + MaxDigit
MaxDigit == 4
\* the strings given to is_valid_number have at most this many characters
MaxLen == 4
\* world variant: commands name cells with coordinates 0 .. MaxCoord, or
\* cells just outside the grid
MaxCoord == 1
\* the world server is not driven beyond this many units in all
MaxUnits == 1
\* no unit is driven to an hp other than those its type has after at most
\* this many blows; the blow that removes a unit comes on top of them
MaxHits == 1
\* clients choose among the countries 1 .. MaxCountry, or an invalid one
MaxCountry == 1
\* no more than this many clients are connected to the world server at once
MaxWorldPlayers == 2
\* the rule engine, called on its own, is not driven beyond this many units
\* in all
MaxRuleUnits == 2
\* a full unit list is not driven beyond this many units past its capacity
MaxOverrun == 1
\* guesses followed past MAX_ATTEMPTS
MaxOverAttempts == 1

PlayerIds == 0 .. (MAX_CLIENTS - 1)
WorldIds == 0 .. (WORLD_MAX_CLIENTS - 1)

Min(S) == CHOOSE x \in S : \A y \in S : x <= y

\* ASCII
CH_0 == 48
CH_9 == 57
STR_123 == <<49, 50, 51>>
STR_132 == <<49, 51, 50>>
STR_112 == <<49, 49, 50>>
\* the strings clients put in the "number" and "guess" fields
NumberInputs == {STR_123, STR_132, STR_112}

\* char secret_number[4] after memset(.., 0, 4)
EMPTY_SECRET == <<0, 0, 0, 0>>

VARIABLES
    variant,        \* which server process runs: "duel" or "world"
    state,          \* game.state
    current_turn,   \* game.current_turn
    players_ready,  \* game.players_ready
    players,        \* game.players[MAX_CLIENTS]
    w_players,      \* world variant: players[MAX_CLIENTS]
    player_num,     \* world variant: gstate.player_num
    master_set,     \* client descriptors in the select() master set
    conns,          \* open client sockets of the process, each with the
                    \* identity the server assigned to it: <<fd, id>>
    clock,          \* time(NULL)
    pc,             \* "select": blocked in select(); "sleep": in end_game's sleep(5)
    code_set,       \* history: slot i's occupant had a set_number accepted
                    \* in the match being played
    call,           \* the function of baseball_protocol.h being called on its own
    args,           \* its arguments
    ret,            \* its return value, once it has returned
    last_heartbeat_check,  \* when the last heartbeat round was sent
    gstate          \* world variant: the GameState of game_logic.h

vars == <<variant, state, current_turn, players_ready, players, w_players,
          player_num, master_set, conns, clock, pc, code_set, call, args, ret,
          last_heartbeat_check, gstate>>

callvars == <<call, args, ret>>

\* ------------------------------------------------------------------------
\* baseball_protocol.h: validation and scoring
\* ------------------------------------------------------------------------
\* Faulty is_valid_number: the loop looking for a repeated digit is missing.
\* C15 must tell it from is_valid_number.
is_valid_number_allows_repeats(number) ==
    IF Len(number) # NUMBER_LENGTH THEN FALSE
    ELSE IF \E i \in 1 .. NUMBER_LENGTH : number[i] < CH_0 \/ number[i] > CH_9 THEN FALSE
    ELSE TRUE

\* is_valid_number(number): strlen is 3, all digits, no repeated digit
is_valid_number(number) ==
    IF Len(number) # NUMBER_LENGTH THEN FALSE
    ELSE IF \E i \in 1 .. NUMBER_LENGTH : number[i] < CH_0 \/ number[i] > CH_9 THEN FALSE
    ELSE IF \E i \in 1 .. NUMBER_LENGTH : \E j \in (i + 1) .. NUMBER_LENGTH :
                number[i] = number[j] THEN FALSE
    ELSE TRUE

\* Faulty calculate_result: a ball is counted for every secret digit found
\* anywhere in the guess. C13 must tell it from calculate_result.
calculate_result_balls_anywhere(secret, guess) ==
    LET Pos == 1 .. NUMBER_LENGTH
        strikes == Cardinality({i \in Pos : secret[i] = guess[i]})
        balls == Cardinality({i \in Pos : \E j \in Pos : secret[i] = guess[j]})
    IN [strikes |-> strikes, balls |-> balls,
        is_correct |-> (strikes = NUMBER_LENGTH)]

\* Faulty calculate_result: is_correct compares with > instead of ==.
\* C14 must tell it from calculate_result.
calculate_result_never_correct(secret, guess) ==
    LET Pos == 1 .. NUMBER_LENGTH
        strikes == Cardinality({i \in Pos : secret[i] = guess[i]})
        balls == Cardinality({i \in Pos :
                     /\ secret[i] # guess[i]
                     /\ \E j \in Pos : /\ i # j
                                       /\ secret[i] = guess[j]
                                       /\ secret[j] # guess[j]})
    IN [strikes |-> strikes, balls |-> balls,
        is_correct |-> (strikes > NUMBER_LENGTH)]

\* Faulty calculate_result: the inner loop starts at j = i + 1, so a digit
\* is a ball only when the guess has it further right. C40 must tell it from
\* calculate_result.
calculate_result_balls_to_the_right(secret, guess) ==
    LET Pos == 1 .. NUMBER_LENGTH
        strikes == Cardinality({i \in Pos : secret[i] = guess[i]})
        balls == Cardinality({i \in Pos :
                     /\ secret[i] # guess[i]
                     /\ \E j \in Pos : /\ j > i
                                       /\ secret[i] = guess[j]
                                       /\ secret[j] # guess[j]})
    IN [strikes |-> strikes, balls |-> balls,
        is_correct |-> (strikes = NUMBER_LENGTH)]

\* calculate_result(secret, guess): strikes, balls, is_correct
calculate_result(secret, guess) ==
    LET Pos == 1 .. NUMBER_LENGTH
        strikes == Cardinality({i \in Pos : secret[i] = guess[i]})
        balls == Cardinality({i \in Pos :
                     /\ secret[i] # guess[i]
                     /\ \E j \in Pos : /\ i # j
                                       /\ secret[i] = guess[j]
                                       /\ secret[j] # guess[j]})
    IN [strikes |-> strikes, balls |-> balls,
        is_correct |-> (strikes = NUMBER_LENGTH)]

\* strcpy(secret_number, number) for a string of length 3
strcpy4(number) == number \o <<0>>

\* the C string held by a char[4] buffer: the characters before the first NUL
CStr(buf) ==
    LET nul == {i \in 1 .. Len(buf) : buf[i] = 0}
    IN IF nul = {} THEN buf ELSE SubSeq(buf, 1, Min(nul) - 1)

\* ------------------------------------------------------------------------
\* Messages (create_message and the fields the server adds)
\* ------------------------------------------------------------------------
create_message(action) ==
    [action |-> action, to |-> -1, fd |-> -1, ok |-> FALSE,
     result |-> "", your_number |-> <<>>, opponent_number |-> <<>>,
     player_id |-> -1, guess |-> <<>>, strikes |-> -1, balls |-> -1,
     attempts |-> -1]

create_error == create_message("error")

\* ------------------------------------------------------------------------
\* The state a handler of the duel server works on
\* ------------------------------------------------------------------------
Cur == [state |-> state, current_turn |-> current_turn,
        players_ready |-> players_ready, players |-> players,
        master_set |-> master_set, conns |-> conns, clock |-> clock,
        pc |-> pc, code_set |-> code_set,
        last_heartbeat_check |-> last_heartbeat_check, sent |-> <<>>]

\* outcomes of the send_json calls of one dispatch, in call order; a handler
\* that makes at most n calls draws them from SendOutcomes(n)
SendOutcomes(n) == [1 .. n -> BOOLEAN]

\* the outcome of the next send_json call: 0 (TRUE) or -1 (FALSE)
SendResult(g, oks) == oks[Len(g.sent) + 1]

send_json(g, fd, to, jmsg, oks) ==
    [g EXCEPT !.sent = Append(@, [jmsg EXCEPT !.to = to, !.fd = fd,
                                              !.ok = SendResult(g, oks)])]

update_player_activity(g, i) ==
    [g EXCEPT !.players[i].last_activity = g.clock]

is_player_timeout(player) ==
    (clock - player.last_activity) > NETWORK_TIMEOUT_SEC

send_to_player(g, player_id, jmsg, oks) ==
    IF player_id < 0 \/ player_id >= MAX_CLIENTS THEN g
    ELSE IF ~g.players[player_id].connected THEN g
    ELSE LET g1 == send_json(g, g.players[player_id].sockfd, player_id, jmsg, oks)
         IN IF SendResult(g, oks)
            THEN update_player_activity(g1, player_id)
            ELSE LET g2 == [g1 EXCEPT !.players[player_id].retry_count = @ + 1]
                 IN IF g2.players[player_id].retry_count >= MAX_RETRY_COUNT
                    THEN [g2 EXCEPT !.players[player_id].connected = FALSE]
                    ELSE g2

RECURSIVE broadcast_from_until_failure(_, _, _, _)
broadcast_from_until_failure(g, i, jmsg, oks) ==
    IF i >= MAX_CLIENTS THEN g
    ELSE IF g.players[i].connected
         THEN LET g1 == send_json(g, g.players[i].sockfd, i, jmsg, oks)
              IN IF SendResult(g, oks)
                 THEN broadcast_from_until_failure(update_player_activity(g1, i),
                                                   i + 1, jmsg, oks)
                 ELSE g1
         ELSE broadcast_from_until_failure(g, i + 1, jmsg, oks)

RECURSIVE broadcast_from(_, _, _, _)
broadcast_from(g, i, jmsg, oks) ==
    IF i >= MAX_CLIENTS THEN g
    ELSE IF g.players[i].connected
         THEN LET g1 == send_json(g, g.players[i].sockfd, i, jmsg, oks)
              IN broadcast_from(IF SendResult(g, oks)
                                THEN update_player_activity(g1, i) ELSE g1,
                                i + 1, jmsg, oks)
         ELSE broadcast_from(g, i + 1, jmsg, oks)

broadcast_to_all(g, jmsg, oks) == broadcast_from(g, 0, jmsg, oks)

\* the heartbeat round: one frame to every connected slot, straight through
\* send_json, a failure only logged; nothing is sent within
\* HEARTBEAT_INTERVAL_SEC of the previous round
RECURSIVE heartbeat_from(_, _, _)
heartbeat_from(g, i, oks) ==
    IF i >= MAX_CLIENTS THEN g
    ELSE IF g.players[i].connected
         THEN heartbeat_from(send_json(g, g.players[i].sockfd, i,
                                       create_message("heartbeat"), oks),
                             i + 1, oks)
         ELSE heartbeat_from(g, i + 1, oks)

send_heartbeat_to_all_as_broadcast(g, oks) ==
    IF g.clock - g.last_heartbeat_check < HEARTBEAT_INTERVAL_SEC THEN g
    ELSE [broadcast_to_all(g, create_message("heartbeat"), oks)
             EXCEPT !.last_heartbeat_check = g.clock]

send_heartbeat_to_all(g, oks) ==
    IF g.clock - g.last_heartbeat_check < HEARTBEAT_INTERVAL_SEC THEN g
    ELSE [heartbeat_from(g, 0, oks) EXCEPT !.last_heartbeat_check = g.clock]

\* ------------------------------------------------------------------------
\* Session state machine of the duel variant
\* ------------------------------------------------------------------------
start_game(g, oks) ==
    IF g.state # "GAME_WAITING" \/ g.players_ready < 2 THEN g
    ELSE LET g1 == [g EXCEPT !.state = "GAME_SETTING"]
             g2 == broadcast_to_all(g1, create_message("game_start"), oks)
         IN [g2 EXCEPT !.players = [i \in PlayerIds |->
                IF g2.players[i].connected
                THEN [g2.players[i] EXCEPT !.state = "PLAYER_SETTING"]
                ELSE g2.players[i]]]

RECURSIVE start_turn_from(_, _, _)
start_turn_from(g, i, oks) ==
    IF i >= MAX_CLIENTS THEN g
    ELSE IF ~g.players[i].connected THEN start_turn_from(g, i + 1, oks)
    ELSE LET mine == (i = g.current_turn)
             g1 == [g EXCEPT !.players[i].state =
                        IF mine THEN "PLAYER_TURN" ELSE "PLAYER_WAITING_TURN"]
             jmsg == create_message(IF mine THEN "your_turn" ELSE "wait_turn")
         IN start_turn_from(send_to_player(g1, i, jmsg, oks), i + 1, oks)

start_turn(g, oks) == start_turn_from(g, 0, oks)

check_all_numbers_set(g, oks) ==
    LET ready_count == Cardinality({i \in PlayerIds :
            g.players[i].connected /\ g.players[i].state = "PLAYER_READY"})
    IN IF ready_count = 2
       THEN start_turn([g EXCEPT !.state = "GAME_PLAYING", !.current_turn = 0], oks)
       ELSE g

\* Faulty end_game: the opponent's number is read from the recipient's own
\* slot. C6 must tell it from game_over_message.
game_over_message_own_number_twice(g, i, winner_id) ==
    [create_message("game_over") EXCEPT
        !.result = IF i = winner_id THEN "victory" ELSE "defeat",
        !.your_number = CStr(g.players[i].secret_number),
        !.opponent_number = CStr(g.players[i].secret_number)]

\* the game_over frame end_game builds for slot i
game_over_message(g, i, winner_id) ==
    [create_message("game_over") EXCEPT
        !.result = IF i = winner_id THEN "victory" ELSE "defeat",
        !.your_number = CStr(g.players[i].secret_number),
        !.opponent_number = CStr(g.players[1 - i].secret_number)]

RECURSIVE end_game_notify_from(_, _, _, _)
end_game_notify_from(g, i, winner_id, oks) ==
    IF i >= MAX_CLIENTS THEN g
    ELSE IF ~g.players[i].connected THEN end_game_notify_from(g, i + 1, winner_id, oks)
    ELSE end_game_notify_from(
             send_to_player(g, i, game_over_message(g, i, winner_id), oks),
             i + 1, winner_id, oks)

\* end_game up to its sleep(5): GAME_FINISHED and one game_over per connected slot
end_game_notify(g, winner_id, oks) ==
    [end_game_notify_from([g EXCEPT !.state = "GAME_FINISHED"], 0, winner_id, oks)
        EXCEPT !.pc = "sleep"]

\* Faulty end_game: the reset forgets attempts. C8 must tell it from
\* end_game_reset.
end_game_reset_keeps_attempts(g) ==
    [g EXCEPT !.clock = @ + END_GAME_SLEEP,
              !.pc = "select",
              !.state = "GAME_WAITING",
              !.current_turn = 0,
              !.code_set = [i \in PlayerIds |-> FALSE],
              !.players = [i \in PlayerIds |->
                  IF g.players[i].connected
                  THEN [g.players[i] EXCEPT !.state = "PLAYER_WAITING",
                                            !.secret_number = EMPTY_SECRET,
                                            !.is_winner = 0]
                  ELSE g.players[i]]]

\* end_game from its sleep(5) on: back to GAME_WAITING, connections kept
end_game_reset(g) ==
    [g EXCEPT !.clock = @ + END_GAME_SLEEP,
              !.pc = "select",
              !.state = "GAME_WAITING",
              !.current_turn = 0,
              !.code_set = [i \in PlayerIds |-> FALSE],
              !.players = [i \in PlayerIds |->
                  IF g.players[i].connected
                  THEN [g.players[i] EXCEPT !.state = "PLAYER_WAITING",
                                            !.secret_number = EMPTY_SECRET,
                                            !.attempts = 0,
                                            !.is_winner = 0]
                  ELSE g.players[i]]]

\* cleanup_disconnected_player
cleanup_disconnected_player(g, player_id) ==
    IF player_id < 0 \/ player_id >= MAX_CLIENTS THEN g
    ELSE LET fd == g.players[player_id].sockfd
             g1 == IF fd >= 0
                   THEN [g EXCEPT !.master_set = @ \ {fd},
                                  !.conns = {c \in @ : c[1] # fd}]
                   ELSE g
             g2 == [g1 EXCEPT !.players[player_id] =
                        [@ EXCEPT !.sockfd = -1, !.connected = FALSE,
                                  !.state = "PLAYER_WAITING",
                                  !.secret_number = EMPTY_SECRET,
                                  !.attempts = 0, !.is_winner = 0,
                                  !.retry_count = 0],
                      !.players_ready = IF @ - 1 < 0 THEN 0 ELSE @ - 1]
         IN IF g2.state \in {"GAME_PLAYING", "GAME_SETTING"}
            THEN [g2 EXCEPT !.state = "GAME_WAITING"]
            ELSE g2

\* check_player_timeouts
RECURSIVE check_player_timeouts_from(_, _, _)
check_player_timeouts_from(g, i, oks) ==
    IF i >= MAX_CLIENTS THEN g
    ELSE IF ~g.players[i].connected THEN check_player_timeouts_from(g, i + 1, oks)
    ELSE IF (g.clock - g.players[i].last_activity) > NETWORK_TIMEOUT_SEC
         THEN LET opponent_id == 1 - i
                  g1 == IF g.players[opponent_id].connected
                        THEN send_json(g, g.players[opponent_id].sockfd, opponent_id,
                                       create_message("timeout"), oks)
                        ELSE g
              IN check_player_timeouts_from(cleanup_disconnected_player(g1, i), i + 1, oks)
         ELSE check_player_timeouts_from(g, i + 1, oks)

check_player_timeouts(g, oks) == check_player_timeouts_from(g, 0, oks)

\* ------------------------------------------------------------------------
\* Connections and client messages of the duel variant
\* ------------------------------------------------------------------------
\* accept() returns the lowest descriptor that is not open
AcceptFd(open) ==
    Min({fd \in (LISTEN_FD + 1) .. (LISTEN_FD + 1 + Cardinality(open)) :
            fd \notin {c[1] : c \in open}})

handle_new_connection(g, oks) ==
    LET conn_fd == AcceptFd(g.conns)
        free == {i \in PlayerIds : ~g.players[i].connected}
    IN IF free = {}
       THEN \* no free slot: an error frame to the new socket, then close(conn_fd)
            send_json(g, conn_fd, -1, create_error, oks)
       ELSE LET player_id == Min(free)
                g0 == [g EXCEPT !.players[player_id].sockfd = conn_fd,
                                !.players[player_id].connected = TRUE,
                                !.players[player_id].state = "PLAYER_WAITING",
                                !.players_ready = @ + 1,
                                !.conns = @ \cup {<<conn_fd, player_id>>},
                                !.code_set[player_id] = FALSE]
                g1 == send_to_player(g0, player_id,
                          [create_message("assign_id") EXCEPT !.player_id = player_id], oks)
            IN IF g1.players_ready = 2
               THEN start_game(g1, oks)
               ELSE send_to_player(g1, player_id, create_message("wait_player"), oks)

\* what recv_json and the field lookups of handle_client_message can yield:
\* NULL ("close"), a set_number or guess with or without its field, or a
\* message that is neither ("other")
ClientInputs ==
    [kind : {"close", "other"}, has : {FALSE}, val : {<<>>}]
    \cup [kind : {"set_number", "guess"}, has : {FALSE}, val : {<<>>}]
    \cup [kind : {"set_number", "guess"}, has : {TRUE}, val : NumberInputs]

\* What one call of recv_json meets on the socket: n1, the return value of
\* the recv of the 2 length bytes; len, the length they announce; n2, the
\* return value of the recv of the body; body, the message the len bytes
\* parse to, or Unparsable.
Messages == {in \in ClientInputs : in.kind # "close"}

\* a body json_tokener_parse returns NULL for
Unparsable == [kind |-> "unparsable", has |-> FALSE, val |-> <<>>]

WireInputs ==
    {w \in [n1 : {-1, 0, 1, 2}, len : {0, 2, BUF_SIZE, BUF_SIZE + 1},
            n2 : {-1, 0, 1, 2, BUF_SIZE}, body : {Unparsable} \cup Messages] :
        w.n2 <= w.len}

\* recv_json from the length check on; NULL is the input of kind "close".
\* After a short read of the body (0 < n2 < len) buf[n2 .. len - 1] is not
\* initialized and json_tokener_parse reads it: any outcome is possible.
recv_json_body(w, len) ==
    IF len <= 0 \/ len > BUF_SIZE THEN {[kind |-> "close", has |-> FALSE, val |-> <<>>]}
    ELSE IF w.n2 <= 0 THEN {[kind |-> "close", has |-> FALSE, val |-> <<>>]}
    ELSE IF w.n2 < len THEN ClientInputs
    ELSE IF w.body = Unparsable THEN {[kind |-> "close", has |-> FALSE, val |-> <<>>]}
    ELSE {w.body}

\* recv_json: the possible return values. After a short read of the length
\* (n1 = 1) one byte of netlen is not initialized: len is any value.
recv_json(w) ==
    IF w.n1 <= 0 THEN {[kind |-> "close", has |-> FALSE, val |-> <<>>]}
    ELSE IF w.n1 < 2
         THEN UNION {recv_json_body(w, len) : len \in {0, 2, BUF_SIZE, BUF_SIZE + 1}}
    ELSE recv_json_body(w, w.len)

\* handle_client_message when recv_json returned NULL
\* Faulty release: the victory notice to the participant who stays carries
\* the code of the one who left. C36 must tell it from client_closed.
client_closed_reveals_number(g, player_id, oks) ==
    LET fd == g.players[player_id].sockfd
        g1 == [g EXCEPT !.conns = {c \in @ : c[1] # fd},
                        !.master_set = @ \ {fd},
                        !.players[player_id].connected = FALSE,
                        !.players_ready = @ - 1]
        other_player == 1 - player_id
    IN IF g1.state \in {"GAME_PLAYING", "GAME_SETTING"} /\ g1.players[other_player].connected
       THEN send_to_player(g1, other_player,
                [create_message("game_over") EXCEPT
                    !.result = "victory",
                    !.opponent_number = CStr(g.players[player_id].secret_number)], oks)
       ELSE g1

client_closed(g, player_id, oks) ==
    LET fd == g.players[player_id].sockfd
        g1 == [g EXCEPT !.conns = {c \in @ : c[1] # fd},
                        !.master_set = @ \ {fd},
                        !.players[player_id].connected = FALSE,
                        !.players_ready = @ - 1]
        other_player == 1 - player_id
    IN IF g1.state \in {"GAME_PLAYING", "GAME_SETTING"} /\ g1.players[other_player].connected
       THEN send_to_player(g1, other_player,
                [create_message("game_over") EXCEPT !.result = "victory"], oks)
       ELSE g1

\* Faulty set_number branch: a participant that is PLAYER_READY may set its
\* number again. C5 must tell it from client_set_number.
client_set_number_again(g, player_id, in, oks) ==
    IF g.players[player_id].state \notin {"PLAYER_SETTING", "PLAYER_READY"}
    THEN send_to_player(g, player_id, create_error, oks)
    ELSE IF ~in.has THEN g
    ELSE IF is_valid_number(in.val)
         THEN LET g1 == [g EXCEPT !.players[player_id].secret_number = strcpy4(in.val),
                                  !.players[player_id].state = "PLAYER_READY",
                                  !.code_set[player_id] = TRUE]
                  g2 == send_to_player(g1, player_id, create_message("number_set"), oks)
              IN check_all_numbers_set(g2, oks)
         ELSE send_to_player(g, player_id, create_error, oks)

\* handle_client_message, action "set_number"
client_set_number(g, player_id, in, oks) ==
    IF g.players[player_id].state # "PLAYER_SETTING"
    THEN send_to_player(g, player_id, create_error, oks)
    ELSE IF ~in.has THEN g
    ELSE IF is_valid_number(in.val)
         THEN LET g1 == [g EXCEPT !.players[player_id].secret_number = strcpy4(in.val),
                                  !.players[player_id].state = "PLAYER_READY",
                                  !.code_set[player_id] = TRUE]
                  g2 == send_to_player(g1, player_id, create_message("number_set"), oks)
              IN check_all_numbers_set(g2, oks)
         ELSE send_to_player(g, player_id, create_error, oks)

\* Faulty guess branch: the sender's sub-state is not looked at. C4 must
\* tell it from client_guess.
client_guess_any_turn(g, player_id, in, oks) ==
    IF ~in.has THEN g
    ELSE IF is_valid_number(in.val)
         THEN LET opponent_id == 1 - player_id
                  result == calculate_result(g.players[opponent_id].secret_number, in.val)
                  g1 == [g EXCEPT !.players[player_id].attempts = @ + 1]
                  jresult == [create_message("guess_result") EXCEPT
                                 !.guess = in.val,
                                 !.strikes = result.strikes,
                                 !.balls = result.balls,
                                 !.attempts = g1.players[player_id].attempts,
                                 !.player_id = player_id]
                  g2 == broadcast_to_all(g1, jresult, oks)
              IN IF result.is_correct
                 THEN end_game_notify(g2, player_id, oks)
                 ELSE start_turn([g2 EXCEPT !.current_turn = 1 - @], oks)
         ELSE send_to_player(g, player_id, create_error, oks)

client_guess_notifies_turn_first(g, player_id, in, oks) ==
    IF g.players[player_id].state # "PLAYER_TURN"
    THEN send_to_player(g, player_id, create_error, oks)
    ELSE IF ~in.has THEN g
    ELSE IF is_valid_number(in.val)
         THEN LET opponent_id == 1 - player_id
                  result == calculate_result(g.players[opponent_id].secret_number, in.val)
                  g1 == [g EXCEPT !.players[player_id].attempts = @ + 1]
                  jresult == [create_message("guess_result") EXCEPT
                                 !.guess = in.val,
                                 !.strikes = result.strikes,
                                 !.balls = result.balls,
                                 !.attempts = g1.players[player_id].attempts,
                                 !.player_id = player_id]
                  g2 == IF result.is_correct
                        THEN end_game_notify(g1, player_id, oks)
                        ELSE start_turn([g1 EXCEPT !.current_turn = 1 - @], oks)
              IN broadcast_to_all(g2, jresult, oks)
         ELSE send_to_player(g, player_id, create_error, oks)

\* handle_client_message, action "guess"
client_guess(g, player_id, in, oks) ==
    IF g.players[player_id].state # "PLAYER_TURN"
    THEN send_to_player(g, player_id, create_error, oks)
    ELSE IF ~in.has THEN g
    ELSE IF is_valid_number(in.val)
         THEN LET opponent_id == 1 - player_id
                  result == calculate_result(g.players[opponent_id].secret_number, in.val)
                  g1 == [g EXCEPT !.players[player_id].attempts = @ + 1]
                  jresult == [create_message("guess_result") EXCEPT
                                 !.guess = in.val,
                                 !.strikes = result.strikes,
                                 !.balls = result.balls,
                                 !.attempts = g1.players[player_id].attempts,
                                 !.player_id = player_id]
                  g2 == broadcast_to_all(g1, jresult, oks)
              IN IF result.is_correct
                 THEN end_game_notify(g2, player_id, oks)
                 ELSE start_turn([g2 EXCEPT !.current_turn = 1 - @], oks)
         ELSE send_to_player(g, player_id, create_error, oks)

handle_client_message(g, player_id, in, oks) ==
    CASE in.kind = "close" -> client_closed(g, player_id, oks)
      [] in.kind = "set_number" -> client_set_number(g, player_id, in, oks)
      [] in.kind = "guess" -> client_guess(g, player_id, in, oks)
      [] OTHER -> g

\* A failed send never adds a later send, so a handler makes the most
\* send_json calls when every call succeeds.
AllSent == [k \in 1 .. (2 * MAX_CLIENTS) |-> TRUE]

SendsOfMessage(g, player_id, in) ==
    IF player_id < 0 THEN 0
    ELSE Len(handle_client_message(g, player_id, in, AllSent).sent)

SendsOfAccept(g) == Len(handle_new_connection(g, AllSent).sent)

\* ------------------------------------------------------------------------
\* Reactor of the duel variant: main of baseball_server.c
\* ------------------------------------------------------------------------
\* main, fd == listen_fd: the handler, then FD_SET of every connected slot
main_listen(g, oks) ==
    LET g1 == handle_new_connection(g, oks)
    IN [g1 EXCEPT !.master_set = @ \cup
           {g1.players[i].sockfd : i \in {j \in PlayerIds : g1.players[j].connected}}]

\* main's lookup of the slot that owns a readable descriptor
FindPlayer(g, fd) ==
    LET hit == {i \in PlayerIds : g.players[i].connected /\ g.players[i].sockfd = fd}
    IN IF hit = {} THEN -1 ELSE Min(hit)

InitPlayer(i) ==
    [sockfd |-> -1, player_id |-> i, connected |-> FALSE,
     state |-> "PLAYER_WAITING", secret_number |-> EMPTY_SECRET,
     attempts |-> 0, is_winner |-> 0, last_activity |-> 0, retry_count |-> 0]

init_game ==
    /\ state = "GAME_WAITING"
    /\ current_turn = 0
    /\ players_ready = 0
    /\ players = [i \in PlayerIds |-> InitPlayer(i)]
    /\ last_heartbeat_check = 0

Commit(g) ==
    /\ state' = g.state
    /\ current_turn' = g.current_turn
    /\ players_ready' = g.players_ready
    /\ players' = g.players
    /\ master_set' = g.master_set
    /\ conns' = g.conns
    /\ clock' = g.clock
    /\ pc' = g.pc
    /\ code_set' = g.code_set
    /\ last_heartbeat_check' = g.last_heartbeat_check

RECURSIVE SumRetry(_, _)
SumRetry(g, i) ==
    IF i >= MAX_CLIENTS THEN 0 ELSE g.players[i].retry_count + SumRetry(g, i + 1)

WithinBounds(g) ==
    /\ SumRetry(g, 0) <= MaxRetrySeen
    /\ \A i \in PlayerIds : g.players[i].attempts <= MaxGuesses

DuelReady == variant = "duel" /\ pc = "select"

DuelAccept(oks) ==
    /\ DuelReady
    /\ LET g == main_listen(Cur, oks)
       IN WithinBounds(g) /\ Commit(g)
    /\ UNCHANGED <<callvars, variant, w_players, player_num, gstate>>

DuelMessage(fd, in, oks) ==
    /\ DuelReady
    /\ fd \in master_set
    /\ FindPlayer(Cur, fd) >= 0
    /\ LET g == handle_client_message(Cur, FindPlayer(Cur, fd), in, oks)
       IN WithinBounds(g) /\ Commit(g)
    /\ UNCHANGED <<callvars, variant, w_players, player_num, gstate>>

\* end_game resumes when its sleep(5) returns
DuelWakeup ==
    /\ variant = "duel"
    /\ pc = "sleep"
    /\ clock < MaxTime
    /\ Commit(end_game_reset(Cur))
    /\ UNCHANGED <<callvars, variant, w_players, player_num, gstate>>

\* time passes while the process is blocked in select()
Tick ==
    /\ pc = "select"
    /\ clock < MaxTime
    /\ clock' = clock + NETWORK_TIMEOUT_SEC + 1
    /\ UNCHANGED <<callvars, variant, state, current_turn, players_ready, players, w_players,
                   player_num, master_set, conns, pc, code_set, last_heartbeat_check,
                   gstate>>

\* ------------------------------------------------------------------------
\* Rule engine of the world variant: game_logic.c
\* ------------------------------------------------------------------------
\* map[y][x] is the value of the map at <<y, x>>
Cells == (0 .. (MAP_HEIGHT - 1)) \X (0 .. (MAP_WIDTH - 1))

InGrid(x, y) == x >= 0 /\ x < MAP_WIDTH /\ y >= 0 /\ y < MAP_HEIGHT

Abs(n) == IF n < 0 THEN -n ELSE n

\* init_map draws every tile at random; `resources` is the set of cells
\* the draw made TILE_RESOURCE
init_map(resources) ==
    [c \in Cells |-> IF c \in resources THEN TILE_RESOURCE ELSE TILE_EMPTY]

\* unit_count and building_count are the lengths of units and buildings;
\* ever_had_two_bases is the static variable of update_game
init_game_state(resources) ==
    [players |-> [i \in WorldIds |->
                     [player_id |-> i, country |-> 0, base_x |-> -1, base_y |-> -1,
                      units |-> <<>>, buildings |-> <<>>]],
     map |-> init_map(resources),
     event_flag |-> 0,
     ever_had_two_bases |-> FALSE]

\* the rule functions return the state they leave and their int result
Failed(gs) == [state |-> gs, result |-> -1]

\* Faulty place_base: the test of the target tile is missing. C25 must tell
\* it from place_base.
place_base_on_any_tile(gs, player_id, x, y) ==
    IF ~InGrid(x, y) THEN Failed(gs)
    ELSE IF gs.players[player_id].base_x # -1 THEN Failed(gs)
    ELSE LET b == [owner_id |-> player_id,
                   building_id |-> player_id * 100 + Len(gs.players[player_id].buildings),
                   type |-> TILE_BASE, x |-> x, y |-> y, hp |-> BASE_HP]
         IN [state |-> [gs EXCEPT !.map[<<y, x>>] = TILE_BASE,
                                  !.players[player_id].base_x = x,
                                  !.players[player_id].base_y = y,
                                  !.players[player_id].buildings = Append(@, b)],
             result |-> 0]

place_base_again(gs, player_id, x, y) ==
    IF ~InGrid(x, y) THEN Failed(gs)
    ELSE IF gs.map[<<y, x>>] # TILE_EMPTY THEN Failed(gs)
    ELSE LET b == [owner_id |-> player_id,
                   building_id |-> player_id * 100 + Len(gs.players[player_id].buildings),
                   type |-> TILE_BASE, x |-> x, y |-> y, hp |-> BASE_HP]
         IN [state |-> [gs EXCEPT !.map[<<y, x>>] = TILE_BASE,
                                  !.players[player_id].base_x = x,
                                  !.players[player_id].base_y = y,
                                  !.players[player_id].buildings = Append(@, b)],
             result |-> 0]

place_base(gs, player_id, x, y) ==
    IF ~InGrid(x, y) THEN Failed(gs)
    ELSE IF gs.map[<<y, x>>] # TILE_EMPTY THEN Failed(gs)
    ELSE IF gs.players[player_id].base_x # -1 THEN Failed(gs)
    ELSE LET b == [owner_id |-> player_id,
                   building_id |-> player_id * 100 + Len(gs.players[player_id].buildings),
                   type |-> TILE_BASE, x |-> x, y |-> y, hp |-> BASE_HP]
         IN [state |-> [gs EXCEPT !.map[<<y, x>>] = TILE_BASE,
                                  !.players[player_id].base_x = x,
                                  !.players[player_id].base_y = y,
                                  !.players[player_id].buildings = Append(@, b)],
             result |-> 0]

\* hp, attack and defense of a unit type; the default case of the switch
\* has none
UnitTypes == {UNIT_WORKER, UNIT_SOLDIER, UNIT_TANK, UNIT_DRONE}

UnitStats(type) ==
    CASE type = UNIT_WORKER -> [hp |-> 30, atk |-> 5, def |-> 2]
      [] type = UNIT_SOLDIER -> [hp |-> 50, atk |-> 10, def |-> 5]
      [] type = UNIT_TANK -> [hp |-> 100, atk |-> 20, def |-> 15]
      [] type = UNIT_DRONE -> [hp |-> 20, atk |-> 15, def |-> 1]

\* Faulty search: dx is the outer loop and dy the inner one. C27 must tell it
\* from find_place_from.
RECURSIVE find_place_from_by_columns(_, _, _, _)
find_place_from_by_columns(gs, bx, by, k) ==
    IF k >= 9 THEN <<-1, -1>>
    ELSE LET nx == bx + (k \div 3) - 1
             ny == by + (k % 3) - 1
         IN IF InGrid(nx, ny) /\ gs.map[<<ny, nx>>] = TILE_EMPTY
            THEN <<nx, ny>>
            ELSE find_place_from_by_columns(gs, bx, by, k + 1)

\* the loops over dy and dx of produce_unit, flattened: step k looks at
\* dy = (k \div 3) - 1, dx = (k % 3) - 1; <<-1, -1>> when no cell is found
RECURSIVE find_place_from(_, _, _, _)
find_place_from(gs, bx, by, k) ==
    IF k >= 9 THEN <<-1, -1>>
    ELSE LET nx == bx + (k % 3) - 1
             ny == by + (k \div 3) - 1
         IN IF InGrid(nx, ny) /\ gs.map[<<ny, nx>>] = TILE_EMPTY
            THEN <<nx, ny>>
            ELSE find_place_from(gs, bx, by, k + 1)

\* ps->units[ps->unit_count++] = u with unit_count >= 100 stores past the end
\* of units[], which is undefined.  PlayerState holds only ints, so units[100]
\* lies on building_count and buildings[0]: building_count becomes u.unit_id
\* and the six ints of buildings[0] become u.owner_id, u.type, u.x, u.y,
\* u.hp, u.attack; a later unit lies past buildings[0].  The loops over
\* buildings then run up to the new building_count and read past
\* buildings[50]; `live` is whether what they read there passes for a
\* Base with hp > 0.
OverReads == BOOLEAN

Overrun(buildings, u, past, live) ==
    LET first == IF past = 0
                 THEN [building_id |-> u.owner_id, owner_id |-> u.type, type |-> u.x,
                       x |-> u.y, y |-> u.hp, hp |-> u.attack]
                 ELSE buildings[1]
        read == [building_id |-> 0, owner_id |-> 0, type |-> TILE_BASE,
                 x |-> 0, y |-> 0, hp |-> 1]
    IN IF live THEN <<first, read>> ELSE <<first>>

produce_unit(gs, player_id, type, live) ==
    LET ps == gs.players[player_id]
    IN IF ps.base_x < 0 THEN Failed(gs)
       ELSE IF type \notin UnitTypes THEN Failed(gs)
       ELSE LET found == find_place_from(gs, ps.base_x, ps.base_y, 0)
                st == UnitStats(type)
                u == [owner_id |-> player_id,
                      unit_id |-> player_id * 100 + Len(ps.units),
                      type |-> type, x |-> found[1], y |-> found[2],
                      hp |-> st.hp, attack |-> st.atk, defense |-> st.def,
                      moving |-> 0]
            IN IF found[1] = -1 THEN Failed(gs)
               ELSE IF Len(ps.units) < UNITS_CAPACITY
               THEN [state |-> [gs EXCEPT !.players[player_id].units = Append(@, u)],
                     result |-> 0]
               ELSE [state |-> [gs EXCEPT !.players[player_id].units = Append(@, u),
                                          !.players[player_id].buildings =
                                              Overrun(@, u, Len(ps.units) - UNITS_CAPACITY,
                                                      live)],
                     result |-> 0]

Manhattan(x1, y1, x2, y2) == Abs(x1 - x2) + Abs(y1 - y2)

\* Faulty move_unit: the test of the Manhattan distance is missing. C28 must
\* tell it from move_unit.
move_unit_any_distance(gs, player_id, unit_id, new_x, new_y) ==
    IF ~InGrid(new_x, new_y) THEN Failed(gs)
    ELSE LET units == gs.players[player_id].units
             movable == {i \in 1 .. Len(units) :
                            /\ units[i].unit_id = unit_id
                            /\ gs.map[<<new_y, new_x>>] = TILE_EMPTY}
         IN IF movable = {} THEN Failed(gs)
            ELSE LET i == Min(movable)
                 IN [state |-> [gs EXCEPT !.players[player_id].units[i].x = new_x,
                                          !.players[player_id].units[i].y = new_y,
                                          !.players[player_id].units[i].moving = 1],
                     result |-> 0]

\* the loop of move_unit goes on after a unit with the id that cannot make
\* the move and stops at the first one that can
move_unit(gs, player_id, unit_id, new_x, new_y) ==
    IF ~InGrid(new_x, new_y) THEN Failed(gs)
    ELSE LET units == gs.players[player_id].units
             movable == {i \in 1 .. Len(units) :
                            /\ units[i].unit_id = unit_id
                            /\ Manhattan(new_x, new_y, units[i].x, units[i].y) = 1
                            /\ gs.map[<<new_y, new_x>>] = TILE_EMPTY}
         IN IF movable = {} THEN Failed(gs)
            ELSE LET i == Min(movable)
                 IN [state |-> [gs EXCEPT !.players[player_id].units[i].x = new_x,
                                          !.players[player_id].units[i].y = new_y,
                                          !.players[player_id].units[i].moving = 1],
                     result |-> 0]

\* index of the first unit with this id in a unit list, 0 when there is none
FirstUnit(units, unit_id) ==
    LET hit == {i \in 1 .. Len(units) : units[i].unit_id = unit_id}
    IN IF hit = {} THEN 0 ELSE Min(hit)

\* Faulty removal: unit_count-- without the copy of the last unit. C29 must
\* tell it from RemoveUnit.
RemoveUnit_shrink_only(units, idx) ==
    [i \in 1 .. (Len(units) - 1) |-> units[i]]

\* tps->units[idx] = tps->units[tps->unit_count - 1]; tps->unit_count--
RemoveUnit(units, idx) ==
    [i \in 1 .. (Len(units) - 1) |-> IF i = idx THEN units[Len(units)] ELSE units[i]]

attack_unit(gs, player_id, attacker_id, target_id) ==
    LET att == FirstUnit(gs.players[player_id].units, attacker_id)
        holders == {pid \in WorldIds : FirstUnit(gs.players[pid].units, target_id) > 0}
    IN IF att = 0 THEN Failed(gs)
       ELSE IF holders = {} THEN Failed(gs)
       ELSE LET tpid == Min(holders)
                tgt == FirstUnit(gs.players[tpid].units, target_id)
                a == gs.players[player_id].units[att]
                t == gs.players[tpid].units[tgt]
                damage == IF a.attack - t.defense < 1 THEN 1 ELSE a.attack - t.defense
                hit == [gs EXCEPT !.players[tpid].units[tgt].hp = @ - damage]
                owner == t.owner_id
                idx == FirstUnit(hit.players[owner].units, target_id)
            IN IF Manhattan(a.x, a.y, t.x, t.y) # 1 THEN Failed(gs)
               ELSE IF t.hp - damage <= 0 /\ idx > 0
                    THEN [state |-> [hit EXCEPT !.players[owner].units =
                                                   RemoveUnit(@, idx)],
                          result |-> 0]
                    ELSE [state |-> hit, result |-> 0]

is_base_destroyed(gs, player_id) ==
    ~\E i \in 1 .. Len(gs.players[player_id].buildings) :
        /\ gs.players[player_id].buildings[i].type = TILE_BASE
        /\ gs.players[player_id].buildings[i].hp > 0

\* the alive_count of update_game and of main
AliveCount(gs) ==
    Cardinality({i \in WorldIds : gs.players[i].base_x # -1 /\ ~is_base_destroyed(gs, i)})

\* ev is what the clock and rand() make of this call: -1 when 10 seconds
\* have not passed since last_update, else the event drawn (0, 1 or 2)
trigger_event(gs, ev) ==
    IF ev < 0 THEN gs ELSE [gs EXCEPT !.event_flag = ev]

EventDraws == {-1, 0, 1, 2}

update_game(gs, ev) ==
    LET g1 == trigger_event(gs, ev)
        alive_count == AliveCount(g1)
    IN IF alive_count >= 2
       THEN [g1 EXCEPT !.ever_had_two_bases = TRUE,
                       !.event_flag = IF @ = EVENT_GAME_OVER THEN 0 ELSE @]
       ELSE IF alive_count = 1 /\ g1.ever_had_two_bases
            THEN [g1 EXCEPT !.event_flag = EVENT_GAME_OVER]
            ELSE [g1 EXCEPT !.event_flag = 0]

\* the fields of a unit that the snapshot carries: attack and defense are
\* not among them
unit_to_json(u) ==
    [unit_id |-> u.unit_id, owner_id |-> u.owner_id, type |-> u.type,
     x |-> u.x, y |-> u.y, hp |-> u.hp, moving |-> u.moving]

\* the "players" array of the snapshot: the slots with a base
game_state_to_json(gs, num) ==
    [player_num |-> num,
     event_flag |-> gs.event_flag,
     players |-> {[player_id |-> gs.players[i].player_id,
                   country |-> gs.players[i].country,
                   base |-> <<gs.players[i].base_x, gs.players[i].base_y>>,
                   units |-> [k \in 1 .. Len(gs.players[i].units) |->
                                 unit_to_json(gs.players[i].units[k])],
                   buildings |-> gs.players[i].buildings] :
                     i \in {j \in WorldIds : gs.players[j].base_x # -1}},
     map |-> gs.map]

\* ------------------------------------------------------------------------
\* The frame of send_json: strlen of json_object_to_json_string, which
\* writes an object as { "key": value, ... } and an array as [ v, ... ]
\* with one space inside the brackets and after each comma and colon, an
\* empty array as [ ], and an int in decimal
\* ------------------------------------------------------------------------
LENGTH_PREFIX_MODULUS == 65536

RECURSIVE DecimalLength(_)
DecimalLength(n) ==
    IF n < 0 THEN 1 + DecimalLength(0 - n)
    ELSE IF n < 10 THEN 1 ELSE 1 + DecimalLength(n \div 10)

RECURSIVE SumOf(_)
SumOf(lens) ==
    IF Len(lens) = 0 THEN 0
    ELSE IF Len(lens) = 1 THEN lens[1]
    ELSE LET half == Len(lens) \div 2
         IN SumOf(SubSeq(lens, 1, half)) + SumOf(SubSeq(lens, half + 1, Len(lens)))

\* brackets or braces around values of these lengths
Bracketed(lens) ==
    IF lens = <<>> THEN 3 ELSE 4 + SumOf(lens) + 2 * (Len(lens) - 1)

\* "key": value
Member(key, len) == Len(key) + 4 + len

IntMember(key, n) == Member(key, DecimalLength(n))

unit_strlen(u) ==
    Bracketed(<<IntMember("unit_id", u.unit_id), IntMember("owner_id", u.owner_id),
                IntMember("type", u.type), IntMember("x", u.x), IntMember("y", u.y),
                IntMember("hp", u.hp), IntMember("moving", u.moving)>>)

building_strlen(b) ==
    Bracketed(<<IntMember("building_id", b.building_id),
                IntMember("owner_id", b.owner_id), IntMember("type", b.type),
                IntMember("x", b.x), IntMember("y", b.y), IntMember("hp", b.hp)>>)

player_strlen(p) ==
    Bracketed(<<IntMember("player_id", p.player_id), IntMember("country", p.country),
                Member("base", Bracketed(<<IntMember("x", p.base[1]),
                                           IntMember("y", p.base[2])>>)),
                Member("units",
                       Bracketed([k \in 1 .. Len(p.units) |-> unit_strlen(p.units[k])])),
                Member("buildings",
                       Bracketed([k \in 1 .. Len(p.buildings) |->
                                     building_strlen(p.buildings[k])]))>>)

\* the players array lists the slots with a base in slot order
RECURSIVE players_strlens(_, _)
players_strlens(snapshot, i) ==
    IF i >= WORLD_MAX_CLIENTS THEN <<>>
    ELSE LET here == {p \in snapshot.players : p.player_id = i}
         IN (IF here = {} THEN <<>> ELSE <<player_strlen(CHOOSE p \in here : TRUE)>>)
                \o players_strlens(snapshot, i + 1)

map_strlen(map) ==
    Bracketed([i \in 1 .. MAP_HEIGHT |->
                  Bracketed([j \in 1 .. MAP_WIDTH |-> DecimalLength(map[<<i - 1, j - 1>>])])])

state_strlen(snapshot) ==
    Bracketed(<<IntMember("player_num", snapshot.player_num),
                IntMember("event_flag", snapshot.event_flag),
                Member("players", Bracketed(players_strlens(snapshot, 0))),
                Member("map", map_strlen(snapshot.map))>>)

\* strlen(s) for the update_state message jmsg
update_state_strlen(jmsg) ==
    Bracketed(<<Member("action", Len(jmsg.action) + 2),
                Member("state", state_strlen(jmsg.state))>>)

\* uint16_t netlen = htons(len)
send_json_netlen(len) == len % LENGTH_PREFIX_MODULUS

\* recv_json: the length test, and the body must be the whole text
recv_json_accepts(netlen, len) == netlen > 0 /\ netlen <= BUF_SIZE /\ netlen = len

\* ------------------------------------------------------------------------
\* Connection registry of the world variant: server.c
\* ------------------------------------------------------------------------
WCur == [w_players |-> w_players, player_num |-> player_num,
         master_set |-> master_set, conns |-> conns, gstate |-> gstate,
         pc |-> pc, sent |-> <<>>]

world_handle_new_connection(w, oks) ==
    LET conn_fd == AcceptFd(w.conns)
        free == {i \in WorldIds : ~w.w_players[i].connected}
    IN IF free = {}
       THEN w   \* close(conn_fd), nothing is sent
       ELSE LET pid == Min(free)
                w1 == [w EXCEPT !.w_players[pid] =
                           [sockfd |-> conn_fd, player_id |-> pid, country |-> 0,
                            connected |-> TRUE],
                         !.player_num = @ + 1,
                         !.conns = @ \cup {<<conn_fd, pid>>}]
            IN send_json(w1, conn_fd, pid,
                   [create_message("assign_id") EXCEPT !.player_id = pid], oks)

\* handle_client_msg when recv_json returned NULL
world_client_closed(w, pid) ==
    LET fd == w.w_players[pid].sockfd
    IN [w EXCEPT !.conns = {c \in @ : c[1] # fd},
                 !.w_players[pid].connected = FALSE,
                 !.player_num = @ - 1,
                 !.master_set = @ \ {fd}]

\* What recv_json and the field lookups of handle_client_msg can yield:
\* NULL ("close"), a message without an action ("noaction"), with an action
\* that is neither country nor command ("other"), a country message (has:
\* the country field is there; a: its value), or a command (has: the type
\* field is there; cmd: its value; haspl: the payload is there; a, b, c:
\* the ints read from the payload in the order the case reads them, 0 for
\* a field that is missing).
WorldMessage(kind, has, cmd, haspl, a, b, c) ==
    [kind |-> kind, has |-> has, cmd |-> cmd, haspl |-> haspl, a |-> a, b |-> b, c |-> c]

WorldCloseInput == WorldMessage("close", FALSE, 0, FALSE, 0, 0, 0)

world_send(w, pid, action, oks) ==
    send_json(w, w.w_players[pid].sockfd, pid, create_message(action), oks)

\* the update_state frame carries the snapshot
world_send_state(w, pid, oks) ==
    send_json(w, w.w_players[pid].sockfd, pid,
              ("state" :> game_state_to_json(w.gstate, w.player_num))
                  @@ create_message("update_state"), oks)

world_country(w, pid, in, oks) ==
    IF ~in.has THEN w
    ELSE LET country == in.a
             taken == \/ country < 1
                      \/ country > WORLD_MAX_CLIENTS
                      \/ \E i \in WorldIds : /\ i # pid
                                             /\ w.w_players[i].connected
                                             /\ w.w_players[i].country = country
         IN IF taken THEN world_send(w, pid, "error", oks)
            ELSE world_send([w EXCEPT !.w_players[pid].country = country,
                                      !.gstate.players[pid].country = country],
                            pid, "country_ok", oks)

\* a command: the rule function, then an error frame when it failed
world_rule(w, pid, r, oks) ==
    LET w1 == [w EXCEPT !.gstate = r.state]
    IN IF r.result < 0 THEN world_send(w1, pid, "error", oks) ELSE w1

world_command(w, pid, in, oks, live) ==
    IF ~in.has THEN w
    ELSE IF in.cmd # CMD_REQUEST_STATE /\ ~in.haspl THEN w
    ELSE CASE in.cmd = CMD_PLACE_BASE ->
                  world_rule(w, pid, place_base(w.gstate, pid, in.a, in.b), oks)
           [] in.cmd = CMD_PRODUCE_UNIT ->
                  world_rule(w, pid, produce_unit(w.gstate, pid, in.a, live), oks)
           [] in.cmd = CMD_MOVE_UNIT ->
                  world_rule(w, pid, move_unit(w.gstate, pid, in.a, in.b, in.c), oks)
           [] in.cmd = CMD_ATTACK_UNIT ->
                  world_rule(w, pid, attack_unit(w.gstate, pid, in.a, in.b), oks)
           [] in.cmd = CMD_REQUEST_STATE -> world_send_state(w, pid, oks)
           [] OTHER -> w

handle_client_msg(w, pid, in, oks, live) ==
    CASE in.kind = "close" -> world_client_closed(w, pid)
      [] in.kind = "country" -> world_country(w, pid, in, oks)
      [] in.kind = "command" -> world_command(w, pid, in, oks, live)
      [] OTHER -> w

RECURSIVE broadcast_state_from(_, _, _)
broadcast_state_from(w, i, oks) ==
    IF i >= WORLD_MAX_CLIENTS THEN w
    ELSE IF w.w_players[i].connected
         THEN broadcast_state_from(world_send_state(w, i, oks), i + 1, oks)
         ELSE broadcast_state_from(w, i + 1, oks)

broadcast_state(w, oks) == broadcast_state_from(w, 0, oks)

RECURSIVE broadcast_game_over_from(_, _, _)
broadcast_game_over_from(w, i, oks) ==
    IF i >= WORLD_MAX_CLIENTS THEN w
    ELSE IF w.w_players[i].connected
         THEN broadcast_game_over_from(world_send(w, i, "game_over", oks), i + 1, oks)
         ELSE broadcast_game_over_from(w, i + 1, oks)

broadcast_game_over(w, oks) == broadcast_game_over_from(w, 0, oks)

\* main, activity == 0: update_game, the game over test, the snapshot
world_main_timeout(w, ev, oks) ==
    LET w1 == [w EXCEPT !.gstate = update_game(w.gstate, ev)]
    IN IF AliveCount(w1.gstate) >= 2 /\ w1.gstate.event_flag = EVENT_GAME_OVER
       THEN [broadcast_game_over(w1, oks) EXCEPT !.pc = "exit"]
       ELSE broadcast_state(w1, oks)

world_main_listen(w, oks) ==
    LET w1 == world_handle_new_connection(w, oks)
    IN [w1 EXCEPT !.master_set = @ \cup
           {w1.w_players[i].sockfd : i \in {j \in WorldIds : w1.w_players[j].connected}}]

WorldFindPlayer(w, fd) ==
    LET hit == {i \in WorldIds : w.w_players[i].connected /\ w.w_players[i].sockfd = fd}
    IN IF hit = {} THEN -1 ELSE Min(hit)

WCommit(w) ==
    /\ w_players' = w.w_players
    /\ player_num' = w.player_num
    /\ master_set' = w.master_set
    /\ conns' = w.conns
    /\ gstate' = w.gstate
    /\ pc' = w.pc

WorldAccept(oks) ==
    /\ variant = "world"
    /\ pc = "select"
    /\ WCommit(world_main_listen(WCur, oks))
    /\ UNCHANGED <<callvars, variant, state, current_turn, players_ready, players, clock,
                   code_set, last_heartbeat_check>>

WorldClose(fd) ==
    /\ variant = "world"
    /\ pc = "select"
    /\ fd \in master_set
    /\ WorldFindPlayer(WCur, fd) >= 0
    /\ WCommit(world_client_closed(WCur, WorldFindPlayer(WCur, fd)))
    /\ UNCHANGED <<callvars, variant, state, current_turn, players_ready, players, clock,
                   code_set, last_heartbeat_check>>

\* the tiles init_map makes TILE_RESOURCE: none near the corner, or the
\* one right of the corner
ResourceDraws == {{}, {<<0, 1>>}}

InitialWorlds == {init_game_state(r) : r \in ResourceDraws}

\* the duel server has no GameState
NoWorld == [players |-> <<>>, map |-> <<>>, event_flag |-> 0, ever_had_two_bases |-> FALSE]

\* the values clients put in their messages: cells of the first row and
\* just outside it, the first unit of each of the first two slots
Coords == (-1 .. MaxCoord) \cup {MAP_WIDTH}
CountryInputs == (0 .. MaxCountry) \cup {WORLD_MAX_CLIENTS + 1}
UnitTypeInputs == {UNIT_WORKER, UNIT_DRONE + 1}
UnitIdInputs == {p * 100 : p \in 0 .. (MaxWorldPlayers - 1)}

WorldInputs ==
    {WorldCloseInput,
     WorldMessage("noaction", FALSE, 0, FALSE, 0, 0, 0),
     WorldMessage("other", FALSE, 0, FALSE, 0, 0, 0),
     WorldMessage("country", FALSE, 0, FALSE, 0, 0, 0),
     WorldMessage("command", FALSE, 0, FALSE, 0, 0, 0),
     WorldMessage("command", TRUE, CMD_PLACE_BASE, FALSE, 0, 0, 0),
     WorldMessage("command", TRUE, CMD_REQUEST_STATE, FALSE, 0, 0, 0),
     WorldMessage("command", TRUE, CMD_REQUEST_STATE + 1, TRUE, 0, 0, 0)}
    \cup {WorldMessage("country", TRUE, 0, FALSE, c, 0, 0) : c \in CountryInputs}
    \cup {WorldMessage("command", TRUE, CMD_PLACE_BASE, TRUE, x, 0, 0) : x \in Coords}
    \cup {WorldMessage("command", TRUE, CMD_PRODUCE_UNIT, TRUE, t, 0, 0) :
              t \in UnitTypeInputs}
    \cup {WorldMessage("command", TRUE, CMD_MOVE_UNIT, TRUE, u, x, 0) :
              u \in UnitIdInputs, x \in Coords}
    \cup {WorldMessage("command", TRUE, CMD_ATTACK_UNIT, TRUE, u, v, 0) :
              u \in UnitIdInputs, v \in UnitIdInputs}

RECURSIVE UnitsFrom(_, _)
UnitsFrom(gs, i) ==
    IF i >= WORLD_MAX_CLIENTS THEN 0
    ELSE Len(gs.players[i].units) + UnitsFrom(gs, i + 1)

\* the damage a unit of the type takes from one blow, by the attacker's type
Blows(type) ==
    {IF UnitStats(a).atk - UnitStats(type).def < 1 THEN 1
     ELSE UnitStats(a).atk - UnitStats(type).def : a \in UnitTypes}

RECURSIVE HpAfter(_, _)
HpAfter(type, hits) ==
    IF hits = 0 THEN {UnitStats(type).hp}
    ELSE LET prev == HpAfter(type, hits - 1)
         IN prev \cup {h - d : h \in prev, d \in Blows(type)}

HpWithinBounds(gs) ==
    \A i \in WorldIds :
        \A k \in 1 .. Len(gs.players[i].units) :
            gs.players[i].units[k].hp \in HpAfter(gs.players[i].units[k].type, MaxHits)

WorldWithinBounds(w) ==
    /\ UnitsFrom(w.gstate, 0) <= MaxUnits
    /\ HpWithinBounds(w.gstate)

WorldConnected(w) == {i \in WorldIds : w.w_players[i].connected}

WorldJoin(oks) ==
    /\ player_num < MaxWorldPlayers
    /\ WorldAccept(oks)

WorldReceive(fd, in, oks, live) ==
    /\ variant = "world"
    /\ pc = "select"
    /\ fd \in master_set
    /\ WorldFindPlayer(WCur, fd) >= 0
    /\ LET w == handle_client_msg(WCur, WorldFindPlayer(WCur, fd), in, oks, live)
       IN WorldWithinBounds(w) /\ WCommit(w)
    /\ UNCHANGED <<callvars, variant, state, current_turn, players_ready, players, clock,
                   code_set, last_heartbeat_check>>

\* select() returns 0 after its one second
WorldTick(ev, oks) ==
    /\ variant = "world"
    /\ pc = "select"
    /\ WCommit(world_main_timeout(WCur, ev, oks))
    /\ UNCHANGED <<callvars, variant, state, current_turn, players_ready, players, clock,
                   code_set, last_heartbeat_check>>

\* ------------------------------------------------------------------------
\* Specifications
\* ------------------------------------------------------------------------
Init ==
    /\ variant \in {"duel", "world"}
    /\ init_game
    /\ w_players = [i \in WorldIds |->
                       [sockfd |-> -1, player_id |-> i, country |-> 0, connected |-> FALSE]]
    /\ player_num = 0
    /\ master_set = {}
    /\ conns = {}
    /\ clock = 0
    /\ pc = "select"
    /\ code_set = [i \in PlayerIds |-> FALSE]
    /\ call = "none"
    /\ args = <<>>
    /\ ret = [done |-> FALSE]
    /\ gstate \in IF variant = "world" THEN InitialWorlds ELSE {NoWorld}

Next ==
    \/ \E oks \in SendOutcomes(SendsOfAccept(Cur)) : DuelAccept(oks)
    \/ \E fd \in master_set : \E in \in ClientInputs :
           \E oks \in SendOutcomes(SendsOfMessage(Cur, FindPlayer(Cur, fd), in)) :
               DuelMessage(fd, in, oks)
    \/ DuelWakeup
    \/ \E oks \in SendOutcomes(1) : WorldAccept(oks)
    \/ \E fd \in master_set : WorldClose(fd)

Spec == Init /\ [][Next]_vars

TimedNext == Next \/ Tick

TimedSpec == Init /\ [][TimedNext]_vars

\* the world server with its rule engine
WorldInit == Init /\ variant = "world"

WorldNext ==
    \/ \E oks \in SendOutcomes(1) : WorldJoin(oks)
    \/ \E fd \in master_set : \E in \in WorldInputs : \E oks \in SendOutcomes(1) :
           \E live \in OverReads : WorldReceive(fd, in, oks, live)
    \/ \E ev \in EventDraws : \E oks \in SendOutcomes(Cardinality(WorldConnected(WCur))) :
           WorldTick(ev, oks)

WorldSpec == WorldInit /\ [][WorldNext]_vars

\* the world server when the unit list of slot 0 is full: two clients have
\* connected, each has placed a base, and the client in slot 0 has sent
\* UNITS_CAPACITY produce commands
InitialWorldServer(gs) ==
    [w_players |-> [i \in WorldIds |->
                       [sockfd |-> -1, player_id |-> i, country |-> 0, connected |-> FALSE]],
     player_num |-> 0, master_set |-> {}, conns |-> {}, gstate |-> gs,
     pc |-> "select", sent |-> <<>>]

Quiet(w) == [w EXCEPT !.sent = <<>>]

RECURSIVE Produced(_, _, _)
Produced(w, pid, n) ==
    IF n = 0 \/ w.pc # "select" THEN w
    ELSE IF n = 1
         THEN Quiet(handle_client_msg(w, pid,
                        WorldMessage("command", TRUE, CMD_PRODUCE_UNIT, TRUE,
                                     UNIT_WORKER, 0, 0),
                        AllSent, FALSE))
         ELSE Produced(Produced(w, pid, n \div 2), pid, n - (n \div 2))

CrowdedWorld(gs) ==
    LET w1 == Quiet(world_main_listen(InitialWorldServer(gs), AllSent))
        w2 == Quiet(world_main_listen(w1, AllSent))
        w3 == Quiet(handle_client_msg(w2, 0,
                        WorldMessage("command", TRUE, CMD_PLACE_BASE, TRUE, 0, 0, 0),
                        AllSent, FALSE))
        w4 == Quiet(handle_client_msg(w3, 1,
                        WorldMessage("command", TRUE, CMD_PLACE_BASE, TRUE, 1, 1, 0),
                        AllSent, FALSE))
    IN Produced(w4, 0, UNITS_CAPACITY)

CrowdedInit ==
    /\ variant = "world"
    /\ init_game
    /\ clock = 0
    /\ code_set = [i \in PlayerIds |-> FALSE]
    /\ call = "none"
    /\ args = <<>>
    /\ ret = [done |-> FALSE]
    /\ \E gs \in InitialWorlds :
          LET w == CrowdedWorld(gs)
          IN /\ w_players = w.w_players
             /\ player_num = w.player_num
             /\ master_set = w.master_set
             /\ conns = w.conns
             /\ gstate = w.gstate
             /\ pc = w.pc

CrowdedInputs ==
    {WorldCloseInput,
     WorldMessage("command", TRUE, CMD_REQUEST_STATE, FALSE, 0, 0, 0)}
    \cup {WorldMessage("country", TRUE, 0, FALSE, c, 0, 0) : c \in CountryInputs}
    \cup {WorldMessage("command", TRUE, CMD_PRODUCE_UNIT, TRUE, t, 0, 0) :
              t \in UnitTypeInputs}

CrowdedWithinBounds(w) ==
    \A i \in WorldIds :
        \/ Len(w.gstate.players[i].units) = 0
        \/ Len(w.gstate.players[i].units) \in
              UNITS_CAPACITY .. (UNITS_CAPACITY + MaxOverrun)

CrowdedReceive(fd, in, oks, live) ==
    /\ variant = "world"
    /\ pc = "select"
    /\ fd \in master_set
    /\ WorldFindPlayer(WCur, fd) >= 0
    /\ LET w == handle_client_msg(WCur, WorldFindPlayer(WCur, fd), in, oks, live)
       IN CrowdedWithinBounds(w) /\ WCommit(w)
    /\ UNCHANGED <<callvars, variant, state, current_turn, players_ready, players, clock,
                   code_set, last_heartbeat_check>>

CrowdedNext ==
    \/ \E oks \in SendOutcomes(1) : WorldJoin(oks)
    \/ \E fd \in master_set : \E in \in CrowdedInputs : \E oks \in SendOutcomes(1) :
           \E live \in OverReads : CrowdedReceive(fd, in, oks, live)
    \/ \E ev \in EventDraws : \E oks \in SendOutcomes(Cardinality(WorldConnected(WCur))) :
           WorldTick(ev, oks)

CrowdedSpec == CrowdedInit /\ [][CrowdedNext]_vars

\* time passes, and a sleep returns
FairTimedSpec == TimedSpec /\ WF_vars(Tick) /\ WF_vars(DuelWakeup)

\* ------------------------------------------------------------------------
\* The functions of baseball_protocol.h called on their own
\* ------------------------------------------------------------------------
\* characters of the strings: the digits in use, '9', the neighbours of the
\* digit range '/' and ':', and the letter 'a'
CH_SLASH == 47
CH_COLON == 58
CH_a == 97
Chars == (CH_0 .. (CH_0 + MaxDigit)) \cup {CH_9, CH_SLASH, CH_COLON, CH_a}

RECURSIVE StringsOfLen(_, _)
StringsOfLen(alphabet, n) ==
    IF n = 0 THEN {<<>>}
    ELSE {Append(str, c) : str \in StringsOfLen(alphabet, n - 1), c \in alphabet}

Strings == UNION {StringsOfLen(Chars, n) : n \in 0 .. MaxLen}

\* strings of 3 distinct decimal digits, written without is_valid_number
ValidCodes ==
    {str \in StringsOfLen(CH_0 .. (CH_0 + MaxDigit), NUMBER_LENGTH) :
        \A i \in 1 .. NUMBER_LENGTH : \A j \in 1 .. NUMBER_LENGTH :
            i # j => str[i] # str[j]}

\* the duel server right after init_game, two accepts, and two accepted
\* set_number messages, every send succeeding
InitialGame ==
    [state |-> "GAME_WAITING", current_turn |-> 0, players_ready |-> 0,
     players |-> [i \in PlayerIds |-> InitPlayer(i)],
     master_set |-> {}, conns |-> {}, clock |-> 0, pc |-> "select",
     code_set |-> [i \in PlayerIds |-> FALSE], last_heartbeat_check |-> 0,
     sent |-> <<>>]

SettingGame ==
    LET g0 == main_listen(InitialGame, AllSent)
        g1 == main_listen([g0 EXCEPT !.sent = <<>>], AllSent)
    IN [g1 EXCEPT !.sent = <<>>]

PlayingGame ==
    LET set0 == [kind |-> "set_number", has |-> TRUE, val |-> STR_123]
        set1 == [kind |-> "set_number", has |-> TRUE, val |-> STR_132]
        g0 == handle_client_message(SettingGame, 0, set0, AllSent)
        g1 == handle_client_message([g0 EXCEPT !.sent = <<>>], 1, set1, AllSent)
    IN [g1 EXCEPT !.sent = <<>>]

Loaded(g) ==
    /\ state = g.state
    /\ current_turn = g.current_turn
    /\ players_ready = g.players_ready
    /\ players = g.players
    /\ master_set = g.master_set
    /\ conns = g.conns
    /\ clock = g.clock
    /\ pc = g.pc
    /\ code_set = g.code_set
    /\ last_heartbeat_check = g.last_heartbeat_check

\* the duel server after one participant of an active match has dropped
OneLeftGame ==
    LET closed == [kind |-> "close", has |-> FALSE, val |-> <<>>]
        g == handle_client_message(PlayingGame, 1, closed, AllSent)
    IN [g EXCEPT !.sent = <<>>]

\* the sessions and the times of day a heartbeat round is tried at
HeartbeatGames == {InitialGame, SettingGame, PlayingGame, OneLeftGame}
HeartbeatTimes == {0, HEARTBEAT_INTERVAL_SEC - 1, HEARTBEAT_INTERVAL_SEC,
                   NETWORK_TIMEOUT_SEC + 1}

CallInit ==
    /\ variant = "none"
    /\ gstate = NoWorld
    /\ w_players = [i \in WorldIds |->
                       [sockfd |-> -1, player_id |-> i, country |-> 0, connected |-> FALSE]]
    /\ player_num = 0
    /\ \/ call = "is_valid_number" /\ args \in {<<str>> : str \in Strings}
                                    /\ Loaded(InitialGame)
       \/ call = "calculate_result" /\ args \in ValidCodes \X ValidCodes
                                    /\ Loaded(InitialGame)
       \/ call = "set_number" /\ args \in {<<str>> : str \in Strings}
                               /\ Loaded(SettingGame)
       \/ call = "guess" /\ args \in {<<str>> : str \in Strings}
                          /\ Loaded(PlayingGame)
       \/ call = "send_heartbeat_to_all"
          /\ args \in {<<oks>> : oks \in SendOutcomes(MAX_CLIENTS)}
          /\ \E g \in HeartbeatGames, t \in HeartbeatTimes :
                Loaded([g EXCEPT !.clock = t])
    /\ ret = [done |-> FALSE]

CallIsValidNumber ==
    /\ call = "is_valid_number"
    /\ ~ret.done
    /\ ret' = [done |-> TRUE, value |-> is_valid_number(args[1])]
    /\ UNCHANGED <<call, args, variant, state, current_turn, players_ready, players,
                   w_players, player_num, master_set, conns, clock, pc, code_set,
                   last_heartbeat_check, gstate>>

CallCalculateResult ==
    /\ call = "calculate_result"
    /\ ~ret.done
    /\ ret' = [done |-> TRUE, value |-> calculate_result(args[1], args[2])]
    /\ UNCHANGED <<call, args, variant, state, current_turn, players_ready, players,
                   w_players, player_num, master_set, conns, clock, pc, code_set,
                   last_heartbeat_check, gstate>>

\* participant 0 sends set_number or guess carrying the string args[1];
\* the return value is what the server sent in reply
CallHandleClientMessage ==
    /\ call \in {"set_number", "guess"}
    /\ ~ret.done
    /\ LET in == [kind |-> call, has |-> TRUE, val |-> args[1]]
           g == handle_client_message(Cur, 0, in, AllSent)
       IN Commit(g) /\ ret' = [done |-> TRUE, value |-> g.sent]
    /\ UNCHANGED <<call, args, variant, w_players, player_num, gstate>>

\* one heartbeat round under the send outcomes args[1]; the return value is
\* what the server sent, kept together with the state the round started in
CallSendHeartbeatToAll ==
    /\ call = "send_heartbeat_to_all"
    /\ ~ret.done
    /\ LET g == send_heartbeat_to_all(Cur, args[1])
       IN Commit(g) /\ ret' = [done |-> TRUE, value |-> g.sent, before |-> Cur]
    /\ UNCHANGED <<call, args, variant, w_players, player_num, gstate>>

CallNext ==
    \/ CallIsValidNumber
    \/ CallCalculateResult
    \/ CallHandleClientMessage
    \/ CallSendHeartbeatToAll

CallSpec == CallInit /\ [][CallNext]_vars

\* ------------------------------------------------------------------------
\* game_logic.c called on its own: any caller, any order of calls
\* ------------------------------------------------------------------------
RulePlayers == 0 .. (MaxWorldPlayers - 1)
RuleUnitTypes == {UNIT_TANK, UNIT_DRONE}
RuleCoords == 0 .. MaxCoord
\* the ids produce_unit gives to the units of a participant, and all of them
UnitIdsOf(p) == {p * 100 + k : k \in 0 .. (MaxRuleUnits - 1)}
RuleUnitIds == UNION {UnitIdsOf(p) : p \in RulePlayers}

\* the draws of init_map the rule engine is started from
RuleResourceDraws == {{}, {<<0, 1>>, <<1, 0>>}}

RuleWithinBounds(gs) ==
    /\ UnitsFrom(gs, 0) <= MaxRuleUnits
    /\ HpWithinBounds(gs)

RuleInit ==
    /\ variant = "none"
    /\ gstate \in {init_game_state(r) : r \in RuleResourceDraws}
    /\ w_players = [i \in WorldIds |->
                       [sockfd |-> -1, player_id |-> i, country |-> 0, connected |-> FALSE]]
    /\ player_num = 0
    /\ Loaded(InitialGame)
    /\ call = "game_logic"
    /\ args = <<>>
    /\ ret = [done |-> FALSE]

RuleCommit(r) ==
    /\ RuleWithinBounds(r.state)
    /\ gstate' = r.state
    /\ UNCHANGED <<callvars, variant, state, current_turn, players_ready, players,
                   w_players, player_num, master_set, conns, clock, pc, code_set,
                   last_heartbeat_check>>

RulePlaceBase(p, x, y) ==
    /\ call = "game_logic"
    /\ RuleCommit(place_base(gstate, p, x, y))

RuleProduceUnit(p, t, live) ==
    /\ call = "game_logic"
    /\ RuleCommit(produce_unit(gstate, p, t, live))

RuleMoveUnit(p, u, x, y) ==
    /\ call = "game_logic"
    /\ RuleCommit(move_unit(gstate, p, u, x, y))

RuleAttackUnit(p, a, t) ==
    /\ call = "game_logic"
    /\ RuleCommit(attack_unit(gstate, p, a, t))

RuleNext ==
    \/ \E p \in RulePlayers, x \in RuleCoords, y \in RuleCoords : RulePlaceBase(p, x, y)
    \/ \E p \in RulePlayers, t \in RuleUnitTypes, live \in OverReads :
          RuleProduceUnit(p, t, live)
    \/ \E p \in RulePlayers, x \in RuleCoords, y \in RuleCoords :
          \E u \in UnitIdsOf(p) : RuleMoveUnit(p, u, x, y)
    \/ \E p \in RulePlayers, t \in RuleUnitIds :
          \E a \in UnitIdsOf(p) : RuleAttackUnit(p, a, t)

RuleSpec == RuleInit /\ [][RuleNext]_vars

\* ------------------------------------------------------------------------
\* The duel server late in a match: both participants have connected and
\* set their codes, and each has made MAX_ATTEMPTS - 1 guesses that missed
\* ------------------------------------------------------------------------
RECURSIVE Guessed(_, _)
Guessed(g, n) ==
    IF n = 0 \/ g.state # "GAME_PLAYING" THEN g
    ELSE LET miss == IF g.current_turn = 0 THEN STR_123 ELSE STR_132
             in == [kind |-> "guess", has |-> TRUE, val |-> miss]
             g1 == handle_client_message(g, g.current_turn, in, AllSent)
         IN Guessed([g1 EXCEPT !.sent = <<>>], n - 1)

LongMatch == Guessed(PlayingGame, MAX_CLIENTS * (MAX_ATTEMPTS - 1))

LongMatchInit ==
    /\ variant = "duel"
    /\ Loaded(LongMatch)
    /\ w_players = [i \in WorldIds |->
                       [sockfd |-> -1, player_id |-> i, country |-> 0, connected |-> FALSE]]
    /\ player_num = 0
    /\ gstate = NoWorld
    /\ call = "none"
    /\ args = <<>>
    /\ ret = [done |-> FALSE]

\* attempts counters are followed from the start of a match to its first
\* guess and from MAX_ATTEMPTS - 1 on
LongWithinBounds(g) ==
    /\ SumRetry(g, 0) <= MaxRetrySeen
    /\ \A i \in PlayerIds :
          \/ g.players[i].attempts <= MaxGuesses
          \/ g.players[i].attempts \in (MAX_ATTEMPTS - 1) .. (MAX_ATTEMPTS + MaxOverAttempts)

LongAccept(oks) ==
    /\ DuelReady
    /\ LET g == main_listen(Cur, oks)
       IN LongWithinBounds(g) /\ Commit(g)
    /\ UNCHANGED <<callvars, variant, w_players, player_num, gstate>>

LongMessage(fd, in, oks) ==
    /\ DuelReady
    /\ fd \in master_set
    /\ FindPlayer(Cur, fd) >= 0
    /\ LET g == handle_client_message(Cur, FindPlayer(Cur, fd), in, oks)
       IN LongWithinBounds(g) /\ Commit(g)
    /\ UNCHANGED <<callvars, variant, w_players, player_num, gstate>>

LongMatchNext ==
    \/ \E oks \in SendOutcomes(SendsOfAccept(Cur)) : LongAccept(oks)
    \/ \E fd \in master_set : \E in \in ClientInputs :
           \E oks \in SendOutcomes(SendsOfMessage(Cur, FindPlayer(Cur, fd), in)) :
               LongMessage(fd, in, oks)
    \/ DuelWakeup

LongMatchSpec == LongMatchInit /\ [][LongMatchNext]_vars

\* ------------------------------------------------------------------------
\* Vocabulary of the properties
\* ------------------------------------------------------------------------
Connected(g) == {i \in PlayerIds : g.players[i].connected}

\* the positions of the frames with this action that a dispatch sent to slot i
SentTo(g, i, action) ==
    {k \in 1 .. Len(g.sent) : g.sent[k].to = i /\ g.sent[k].action = action}

\* the slots main can dispatch a client message for
Dispatchable ==
    {i \in PlayerIds : /\ players[i].connected
                       /\ players[i].sockfd \in master_set
                       /\ FindPlayer(Cur, players[i].sockfd) = i}

CloseInput == [kind |-> "close", has |-> FALSE, val |-> <<>>]
GuessInputs == {in \in ClientInputs : in.kind = "guess"}
SetNumberInputs == {in \in ClientInputs : in.kind = "set_number"}

\* the outcomes main's dispatch of `in` for slot i can meet
OutcomesOf(i, in) == SendOutcomes(SendsOfMessage(Cur, i, in))

\* ------------------------------------------------------------------------
\* C1. In both variants no two open client connections are bound to the
\* same identity at the same time, and an identity whose occupant has
\* disconnected is given to the next accepted connection when it is the
\* first free slot.
\* ------------------------------------------------------------------------
C1_OneConnectionPerIdentity ==
    /\ \A c \in conns : \A d \in conns : c[2] = d[2] => c = d
    /\ (DuelReady /\ Connected(Cur) # PlayerIds) =>
          \A oks \in SendOutcomes(SendsOfAccept(Cur)) :
              <<AcceptFd(conns), Min(PlayerIds \ Connected(Cur))>>
                  \in main_listen(Cur, oks).conns
    /\ (variant = "world" /\ \E i \in WorldIds : ~w_players[i].connected) =>
          \A oks \in SendOutcomes(1) :
              <<AcceptFd(conns), Min({i \in WorldIds : ~w_players[i].connected})>>
                  \in world_main_listen(WCur, oks).conns

\* ------------------------------------------------------------------------
\* C2. Duel: an accept in GAME_WAITING that brings the number of connected
\* participants to two moves the session to GAME_SETTING in the same step,
\* sends game_start to both, leaves both in PLAYER_SETTING, and the two
\* hold the identities 0 and 1.
\* ------------------------------------------------------------------------
C2_SecondAcceptStartsSetup ==
    (DuelReady /\ state = "GAME_WAITING") =>
        \A oks \in SendOutcomes(SendsOfAccept(Cur)) :
            LET g == main_listen(Cur, oks)
            IN (g.conns # conns /\ Connected(g) = PlayerIds) =>
                  /\ g.state = "GAME_SETTING"
                  /\ \A i \in PlayerIds :
                        /\ SentTo(g, i, "game_start") # {}
                        /\ g.players[i].state = "PLAYER_SETTING"
                        /\ <<g.players[i].sockfd, i>> \in g.conns

\* ------------------------------------------------------------------------
\* C3. Duel: the session enters GAME_PLAYING only in a step after which
\* both connected participants have had a valid secret code accepted in the
\* current match, and whenever the session is GAME_PLAYING every connected
\* participant has itself had a valid secret code accepted since it
\* connected.
\* ------------------------------------------------------------------------
C3_ActiveOnlyWithSecrets ==
    /\ (DuelReady /\ state # "GAME_PLAYING") =>
          /\ \A oks \in SendOutcomes(SendsOfAccept(Cur)) :
                main_listen(Cur, oks).state # "GAME_PLAYING"
          /\ \A pid \in Dispatchable : \A in \in ClientInputs :
                \A oks \in OutcomesOf(pid, in) :
                    LET g == handle_client_message(Cur, pid, in, oks)
                    IN g.state = "GAME_PLAYING" =>
                          \A i \in PlayerIds :
                              /\ g.code_set[i]
                              /\ is_valid_number(CStr(g.players[i].secret_number))
    /\ state = "GAME_PLAYING" =>
          \A i \in Connected(Cur) : code_set[i]

\* ------------------------------------------------------------------------
\* C4. Duel: a guess from a participant whose sub-state is not PLAYER_TURN
\* is answered with one error message to that participant and changes
\* neither the session state, current_turn, any sub-state, any secret code
\* nor any guess count.
\* ------------------------------------------------------------------------
C4_GuessOutOfTurnRejected ==
    DuelReady =>
        \A pid \in Dispatchable : \A in \in GuessInputs : \A oks \in OutcomesOf(pid, in) :
            players[pid].state # "PLAYER_TURN" =>
                LET g == handle_client_message(Cur, pid, in, oks)
                IN /\ Len(g.sent) = 1
                   /\ g.sent[1].action = "error"
                   /\ g.sent[1].to = pid
                   /\ g.state = state
                   /\ g.current_turn = current_turn
                   /\ \A i \in PlayerIds :
                         /\ g.players[i].state = players[i].state
                         /\ g.players[i].secret_number = players[i].secret_number
                         /\ g.players[i].attempts = players[i].attempts

\* a participant waiting for its turn, in a running match, whose guess the
\* server answers with an error
C4_Witness ==
    /\ DuelReady
    /\ state = "GAME_PLAYING"
    /\ \E pid \in Dispatchable : \E in \in GuessInputs : \E oks \in OutcomesOf(pid, in) :
          /\ players[pid].state = "PLAYER_WAITING_TURN"
          /\ in.has /\ is_valid_number(in.val)
          /\ handle_client_message(Cur, pid, in, oks).sent[1].action = "error"

\* ------------------------------------------------------------------------
\* C5. Duel: once a participant's set_number has been accepted, every later
\* set_number from it before the match ends is answered with one error
\* message and leaves its stored secret code unchanged.
\* ------------------------------------------------------------------------
C5_SecretSetOncePerMatch ==
    DuelReady =>
        \A pid \in Dispatchable : \A in \in SetNumberInputs : \A oks \in OutcomesOf(pid, in) :
            code_set[pid] =>
                LET g == handle_client_message(Cur, pid, in, oks)
                IN /\ Len(g.sent) = 1
                   /\ g.sent[1].action = "error"
                   /\ g.sent[1].to = pid
                   /\ g.players[pid].secret_number = players[pid].secret_number

\* a participant whose code was accepted sends another valid, different code
C5_Witness ==
    /\ DuelReady
    /\ \E pid \in Dispatchable : \E in \in SetNumberInputs :
          /\ code_set[pid]
          /\ in.has /\ is_valid_number(in.val)
          /\ strcpy4(in.val) # players[pid].secret_number
          /\ \E oks \in OutcomesOf(pid, in) :
                handle_client_message(Cur, pid, in, oks).sent[1].action = "error"

\* ------------------------------------------------------------------------
\* C6. Duel: when the participant in PLAYER_TURN submits a valid guess
\* equal to the opponent's secret code, the session becomes GAME_FINISHED
\* and every connected participant is sent exactly one game_over carrying
\* its own and its opponent's secret code, with result victory for the
\* guesser and defeat for the other.
\* ------------------------------------------------------------------------
C6_WinningGuessFinishes ==
    DuelReady =>
        \A pid \in Dispatchable : \A in \in GuessInputs : \A oks \in OutcomesOf(pid, in) :
            (/\ players[pid].state = "PLAYER_TURN"
             /\ in.has /\ is_valid_number(in.val)
             /\ in.val = CStr(players[1 - pid].secret_number)) =>
                LET g == handle_client_message(Cur, pid, in, oks)
                IN /\ g.state = "GAME_FINISHED"
                   /\ \A i \in Connected(Cur) :
                         /\ Cardinality(SentTo(g, i, "game_over")) = 1
                         /\ \A k \in SentTo(g, i, "game_over") :
                               /\ g.sent[k].your_number = CStr(players[i].secret_number)
                               /\ g.sent[k].opponent_number = CStr(players[1 - i].secret_number)
                               /\ g.sent[k].result = IF i = pid THEN "victory" ELSE "defeat"

\* both participants are connected with different secret codes and the one
\* whose turn it is guesses the other's code
C6_Witness ==
    /\ DuelReady
    /\ Connected(Cur) = PlayerIds
    /\ players[0].secret_number # players[1].secret_number
    /\ \E pid \in Dispatchable : \E in \in GuessInputs :
          /\ players[pid].state = "PLAYER_TURN"
          /\ in.has /\ is_valid_number(in.val)
          /\ in.val = CStr(players[1 - pid].secret_number)
          /\ \E oks \in OutcomesOf(pid, in) :
                handle_client_message(Cur, pid, in, oks).state = "GAME_FINISHED"

\* ------------------------------------------------------------------------
\* C7. Duel: after a valid non-winning guess by the participant in
\* PLAYER_TURN, current_turn is the other identity, that participant is in
\* PLAYER_TURN and is sent your_turn, the guesser is in PLAYER_WAITING_TURN
\* and is sent wait_turn, and only the guesser's guess count changes, by +1.
\* ------------------------------------------------------------------------
C7_WrongGuessPassesTurn ==
    DuelReady =>
        \A pid \in Dispatchable : \A in \in GuessInputs : \A oks \in OutcomesOf(pid, in) :
            (/\ players[pid].state = "PLAYER_TURN"
             /\ in.has /\ is_valid_number(in.val)
             /\ ~calculate_result(players[1 - pid].secret_number, in.val).is_correct) =>
                LET g == handle_client_message(Cur, pid, in, oks)
                IN /\ g.current_turn = 1 - pid
                   /\ g.players[1 - pid].state = "PLAYER_TURN"
                   /\ SentTo(g, 1 - pid, "your_turn") # {}
                   /\ g.players[pid].state = "PLAYER_WAITING_TURN"
                   /\ SentTo(g, pid, "wait_turn") # {}
                   /\ g.players[pid].attempts = players[pid].attempts + 1
                   /\ g.players[1 - pid].attempts = players[1 - pid].attempts

\* ------------------------------------------------------------------------
\* C8. Duel: once a finished match has been processed, the session is
\* GAME_WAITING, current_turn is 0, every connected participant is in
\* PLAYER_WAITING with an empty secret code and guess count 0, and every
\* participant's connected flag and socket are the same as before the
\* finish, that is, before the winning guess was handled.
\* ------------------------------------------------------------------------
WinningGuess(pid, in) ==
    /\ players[pid].state = "PLAYER_TURN"
    /\ in.has /\ is_valid_number(in.val)
    /\ calculate_result(players[1 - pid].secret_number, in.val).is_correct

ResetMatch(g) ==
    /\ g.state = "GAME_WAITING"
    /\ g.current_turn = 0
    /\ \A i \in Connected(g) :
          /\ g.players[i].state = "PLAYER_WAITING"
          /\ g.players[i].secret_number = EMPTY_SECRET
          /\ g.players[i].attempts = 0

C8_FinishedMatchIsReset ==
    DuelReady =>
        \A pid \in Dispatchable : \A in \in GuessInputs : \A oks \in OutcomesOf(pid, in) :
            WinningGuess(pid, in) =>
                LET g == end_game_reset(handle_client_message(Cur, pid, in, oks))
                IN /\ ResetMatch(g)
                   /\ \A i \in PlayerIds :
                         /\ g.players[i].connected = players[i].connected
                         /\ g.players[i].sockfd = players[i].sockfd

\* C8 as the code keeps it: the reset step itself leaves every connected
\* flag and socket alone, and over the whole of end_game every socket is
\* kept and a connected flag changes only for a participant whose game_over
\* send failed at the retry limit.
C8_ResetKeepsConnections ==
    /\ (variant = "duel" /\ pc = "sleep") =>
          LET g == end_game_reset(Cur)
          IN /\ ResetMatch(g)
             /\ \A i \in PlayerIds :
                   /\ g.players[i].connected = players[i].connected
                   /\ g.players[i].sockfd = players[i].sockfd
    /\ DuelReady =>
          \A pid \in Dispatchable : \A in \in GuessInputs : \A oks \in OutcomesOf(pid, in) :
              WinningGuess(pid, in) =>
                  LET g1 == handle_client_message(Cur, pid, in, oks)
                      g == end_game_reset(g1)
                  IN /\ ResetMatch(g)
                     /\ \A i \in PlayerIds :
                           /\ g.players[i].sockfd = players[i].sockfd
                           /\ g.players[i].connected # players[i].connected =>
                                 /\ players[i].connected
                                 /\ g1.players[i].retry_count >= MAX_RETRY_COUNT
                                 /\ \E k \in SentTo(g1, i, "game_over") : ~g1.sent[k].ok

\* a finished match is about to be reset with both participants connected,
\* holding secret codes, the winner with a counted guess
C8_Witness ==
    /\ variant = "duel"
    /\ pc = "sleep"
    /\ state = "GAME_FINISHED"
    /\ Connected(Cur) = PlayerIds
    /\ \A i \in PlayerIds : players[i].secret_number # EMPTY_SECRET
    /\ \E i \in PlayerIds : players[i].attempts > 0
    /\ end_game_reset(Cur).state = "GAME_WAITING"

\* ------------------------------------------------------------------------
\* C9. Duel: whenever a connection is released while the session is
\* GAME_SETTING or GAME_PLAYING, the release step closes the socket, marks
\* the slot not connected, decrements players_ready by one, and leaves the
\* session neither GAME_SETTING nor GAME_PLAYING.
\* ------------------------------------------------------------------------
C9_ReleaseEndsSession ==
    (DuelReady /\ state \in {"GAME_SETTING", "GAME_PLAYING"}) =>
        \A pid \in Dispatchable : \A oks \in OutcomesOf(pid, CloseInput) :
            LET g == handle_client_message(Cur, pid, CloseInput, oks)
            IN /\ players[pid].sockfd \notin {c[1] : c \in g.conns}
               /\ ~g.players[pid].connected
               /\ g.players_ready = players_ready - 1
               /\ g.state \notin {"GAME_SETTING", "GAME_PLAYING"}

\* ------------------------------------------------------------------------
\* C10. Duel: if a connected participant's last_activity is more than 30
\* behind the clock, the server eventually evicts it: the slot is marked
\* not connected and its socket is closed.
\* ------------------------------------------------------------------------
TimedOut(i) ==
    variant = "duel" /\ players[i].connected /\ is_player_timeout(players[i])

Evicted(i) ==
    ~players[i].connected /\ players[i].sockfd \notin {c[1] : c \in conns}

C10_TimeoutEvicts ==
    \A i \in PlayerIds : TimedOut(i) ~> Evicted(i)

\* ------------------------------------------------------------------------
\* C11. In both variants, when a new connection arrives while every slot is
\* connected, the server sends that connection an error message, closes it,
\* and leaves the slot table, the connected/ready counter and the session
\* state unchanged.
\* ------------------------------------------------------------------------
DuelFullRejects ==
    (DuelReady /\ Connected(Cur) = PlayerIds) =>
        \A oks \in SendOutcomes(SendsOfAccept(Cur)) :
            LET g == main_listen(Cur, oks)
            IN /\ Len(g.sent) = 1
               /\ g.sent[1].action = "error"
               /\ g.sent[1].fd = AcceptFd(conns)
               /\ g.conns = conns
               /\ g.master_set = master_set
               /\ g.players = players
               /\ g.players_ready = players_ready
               /\ g.state = state

WorldFull == variant = "world" /\ \A i \in WorldIds : w_players[i].connected

WorldFullRejects ==
    WorldFull =>
        \A oks \in SendOutcomes(1) :
            LET w == world_main_listen(WCur, oks)
            IN /\ Len(w.sent) = 1
               /\ w.sent[1].action = "error"
               /\ w.sent[1].fd = AcceptFd(conns)
               /\ w.conns = conns
               /\ w.master_set = master_set
               /\ w.w_players = w_players
               /\ w.player_num = player_num

C11_FullRegistryRejects == DuelFullRejects /\ WorldFullRejects

\* ------------------------------------------------------------------------
\* C12. When a slot is given to a new connection, the new occupant starts
\* with initial participant data: in the duel variant an empty secret code,
\* guess count 0, retry count 0 and sub-state PLAYER_WAITING, that is, the
\* accept leaves the slot as it would leave a slot never used before; in
\* the world variant country 0.
\* ------------------------------------------------------------------------
FreshSlot(g, i) ==
    [g EXCEPT !.players[i] = [InitPlayer(i) EXCEPT !.last_activity = g.players[i].last_activity]]

C12_ReusedSlotStartsFresh ==
    /\ (DuelReady /\ Connected(Cur) # PlayerIds) =>
          \A oks \in SendOutcomes(SendsOfAccept(Cur)) :
              LET i == Min(PlayerIds \ Connected(Cur))
                  g == main_listen(Cur, oks)
                  f == main_listen(FreshSlot(Cur, i), oks)
              IN /\ g.players[i].secret_number = EMPTY_SECRET
                 /\ g.players[i].attempts = 0
                 /\ g.players[i].retry_count = f.players[i].retry_count
                 /\ g.players[i].state = f.players[i].state
    /\ (variant = "world" /\ ~WorldFull) =>
          \A oks \in SendOutcomes(1) :
              LET i == Min({j \in WorldIds : ~w_players[j].connected})
              IN world_main_listen(WCur, oks).w_players[i].country = 0

\* ------------------------------------------------------------------------
\* C13. For every pair of valid codes, calculate_result(secret, guess)
\* returns strikes equal to the number of positions where the two agree,
\* balls equal to the number of guess digits that occur in secret at a
\* different position, and is_correct exactly when guess = secret; and
\* the result for "123", "321" is 1 strike, 2 balls, not correct.
\* ------------------------------------------------------------------------
STR_321 == <<51, 50, 49>>

C13_ScoreCountsStrikesAndBalls ==
    (call = "calculate_result" /\ ret.done) =>
        LET secret == args[1]
            guess == args[2]
            Pos == 1 .. NUMBER_LENGTH
        IN /\ ret.value.strikes = Cardinality({i \in Pos : secret[i] = guess[i]})
           /\ ret.value.balls =
                 Cardinality({j \in Pos : \E i \in Pos : i # j /\ secret[i] = guess[j]})
           /\ ret.value.is_correct = (guess = secret)
           /\ (secret = STR_123 /\ guess = STR_321) =>
                 ret.value = [strikes |-> 1, balls |-> 2, is_correct |-> FALSE]

\* calculate_result has returned for "123", "321"
C13_Witness ==
    /\ call = "calculate_result"
    /\ ret.done
    /\ args = <<STR_123, STR_321>>
    /\ ret.value.balls = 2

\* ------------------------------------------------------------------------
\* C14. For every valid code s, calculate_result(s, s) returns strikes 3,
\* balls 0 and is_correct true.
\* ------------------------------------------------------------------------
C14_ScoreOfSecretItself ==
    (call = "calculate_result" /\ ret.done /\ args[1] = args[2]) =>
        ret.value = [strikes |-> 3, balls |-> 0, is_correct |-> TRUE]

\* calculate_result has returned for a code and itself
C14_Witness ==
    /\ call = "calculate_result"
    /\ ret.done
    /\ args[1] = args[2]
    /\ ret.value.strikes = 3

\* ------------------------------------------------------------------------
\* C15. is_valid_number accepts a string exactly when it has length 3,
\* every character is a decimal digit and no digit repeats; it rejects
\* "112", "12a" and "12" and accepts "123"; and the server stores a secret
\* or scores a guess only for strings it accepts.
\* ------------------------------------------------------------------------
STR_12a == <<49, 50, 97>>
STR_12 == <<49, 50>>

ThreeDistinctDigits(str) ==
    /\ Len(str) = 3
    /\ \A i \in 1 .. Len(str) : str[i] \in CH_0 .. CH_9
    /\ \A i \in 1 .. Len(str) : \A j \in 1 .. Len(str) : i # j => str[i] # str[j]

C15_ValidCodes ==
    /\ (call = "is_valid_number" /\ ret.done) =>
          /\ ret.value = ThreeDistinctDigits(args[1])
          /\ args[1] \in {STR_112, STR_12a, STR_12} => ~ret.value
          /\ args[1] = STR_123 => ret.value
    /\ (call = "set_number" /\ ret.done) =>
          IF ThreeDistinctDigits(args[1])
          THEN CStr(players[0].secret_number) = args[1]
          ELSE players[0].secret_number = EMPTY_SECRET
    /\ (call = "guess" /\ ret.done) =>
          IF ThreeDistinctDigits(args[1])
          THEN players[0].attempts = 1
          ELSE /\ players[0].attempts = 0
               /\ \A k \in 1 .. Len(ret.value) : ret.value[k].action # "guess_result"

\* the three functions have returned for an accepted and for a rejected string
C15_Witness ==
    /\ ret.done
    /\ \/ call = "is_valid_number" /\ args[1] = STR_12a /\ ~ret.value
       \/ call = "set_number" /\ args[1] = STR_123
                               /\ players[0].secret_number = strcpy4(STR_123)
       \/ call = "guess" /\ args[1] = STR_112 /\ players[0].attempts = 0

\* ------------------------------------------------------------------------
\* C16. In both variants, a receive on a client connection that ends in
\* peer close, fewer bytes than requested, a length prefix of 0 or greater
\* than 4096, or an unparsable body makes the server close that connection,
\* mark its slot not connected and remove its socket from the watched set,
\* without changing any other slot.
\* ------------------------------------------------------------------------
FailedReceives ==
    {w \in WireInputs :
        \/ w.n1 < 2
        \/ w.len = 0 \/ w.len > BUF_SIZE
        \/ w.n2 < w.len
        \/ w.body = Unparsable}

FailedReceiveResults == UNION {recv_json(w) : w \in FailedReceives}

DuelReceiveFailureCloses ==
    DuelReady =>
        \A pid \in Dispatchable : \A in \in FailedReceiveResults :
            \A oks \in OutcomesOf(pid, in) :
                LET g == handle_client_message(Cur, pid, in, oks)
                IN /\ players[pid].sockfd \notin {c[1] : c \in g.conns}
                   /\ ~g.players[pid].connected
                   /\ players[pid].sockfd \notin g.master_set
                   /\ \A j \in PlayerIds \ {pid} : g.players[j] = players[j]

WorldReceiveFailureCloses ==
    variant = "world" =>
        \A fd \in master_set : \A in \in FailedReceiveResults :
            LET pid == WorldFindPlayer(WCur, fd)
            IN pid >= 0 =>
                  /\ in.kind = "close"
                  /\ LET w == world_client_closed(WCur, pid)
                     IN /\ fd \notin {c[1] : c \in w.conns}
                        /\ ~w.w_players[pid].connected
                        /\ fd \notin w.master_set
                        /\ \A j \in WorldIds \ {pid} : w.w_players[j] = w_players[j]

C16_ReceiveFailureCloses == DuelReceiveFailureCloses /\ WorldReceiveFailureCloses

\* ------------------------------------------------------------------------
\* C17. Duel: every successful send to a participant and every successful
\* receive of a message from a participant sets that participant's
\* last_activity to the current time.
\* ------------------------------------------------------------------------
SendsRefreshActivity(g) ==
    \A k \in 1 .. Len(g.sent) :
        (g.sent[k].ok /\ g.sent[k].to \in PlayerIds) =>
            g.players[g.sent[k].to].last_activity = g.clock

SendRefreshesActivity ==
    DuelReady =>
        /\ \A oks \in SendOutcomes(SendsOfAccept(Cur)) :
              SendsRefreshActivity(main_listen(Cur, oks))
        /\ \A pid \in Dispatchable : \A in \in ClientInputs : \A oks \in OutcomesOf(pid, in) :
              SendsRefreshActivity(handle_client_message(Cur, pid, in, oks))

ReceiveRefreshesActivity ==
    DuelReady =>
        \A pid \in Dispatchable : \A in \in Messages : \A oks \in OutcomesOf(pid, in) :
            handle_client_message(Cur, pid, in, oks).players[pid].last_activity = clock

C17_TrafficRefreshesActivity == SendRefreshesActivity /\ ReceiveRefreshesActivity

\* ------------------------------------------------------------------------
\* C18. Duel: retry_count counts consecutive send failures: a successful
\* send to a participant resets its count, a failed send raises it by one,
\* and the participant is marked not connected by the retry policy exactly
\* when the count of failures in a row reaches 3.
\* ------------------------------------------------------------------------
SendsTo(g, i) == {k \in 1 .. Len(g.sent) : g.sent[k].to = i}

\* the failed sends to i after the last successful one
TrailingFailures(g, i) ==
    {k \in SendsTo(g, i) : \A m \in SendsTo(g, i) : g.sent[m].ok => m < k}

C18_RetryCountsConsecutiveFailures ==
    DuelReady =>
        \A pid \in Dispatchable : \A in \in Messages : \A oks \in OutcomesOf(pid, in) :
            LET g == handle_client_message(Cur, pid, in, oks)
            IN \A i \in Connected(Cur) :
                  /\ g.players[i].retry_count =
                        IF \E k \in SendsTo(g, i) : g.sent[k].ok
                        THEN Cardinality(TrailingFailures(g, i))
                        ELSE players[i].retry_count + Cardinality(SendsTo(g, i))
                  /\ ~g.players[i].connected <=> g.players[i].retry_count >= MAX_RETRY_COUNT

\* ------------------------------------------------------------------------
\* C19. Duel: after the retry policy marks a participant not connected, the
\* main loop on a later pass closes that participant's socket and removes
\* it from the select set: a descriptor in the select set that belongs to
\* no connected slot is eventually closed and out of the set.
\* ------------------------------------------------------------------------
ClientFds == (LISTEN_FD + 1) .. (LISTEN_FD + 1 + MAX_CLIENTS + MaxRetrySeen)

Orphaned(fd) ==
    /\ variant = "duel"
    /\ fd \in master_set
    /\ FindPlayer(Cur, fd) < 0

TornDown(fd) ==
    /\ fd \notin master_set
    /\ fd \notin {c[1] : c \in conns}

C19_FlaggedSocketIsTornDown ==
    \A fd \in ClientFds : Orphaned(fd) ~> TornDown(fd)


\* ------------------------------------------------------------------------
\* C20. In the duel variant a heartbeat round changes no participant's
\* last activity time, whether a send of the round succeeds or fails, and
\* it changes no field of the session or of the match: after the round
\* every slot, the session state, the turn, the count of ready
\* participants and the watched sockets are what they were before it.
\* ------------------------------------------------------------------------
C20_HeartbeatLeavesSessionAlone ==
    (call = "send_heartbeat_to_all" /\ ret.done) =>
        /\ \A i \in PlayerIds :
              players[i].last_activity = ret.before.players[i].last_activity
        /\ players = ret.before.players
        /\ state = ret.before.state
        /\ current_turn = ret.before.current_turn
        /\ players_ready = ret.before.players_ready
        /\ master_set = ret.before.master_set
        /\ conns = ret.before.conns
        /\ code_set = ret.before.code_set

\* a round was sent long after the participants' last traffic, one frame
\* of it delivered and one lost
C20_Witness ==
    /\ call = "send_heartbeat_to_all"
    /\ ret.done
    /\ last_heartbeat_check = clock
    /\ \E k, l \in 1 .. Len(ret.value) :
          /\ ret.value[k].action = "heartbeat" /\ ret.value[k].ok
          /\ ret.value[l].action = "heartbeat" /\ ~ret.value[l].ok
    /\ \A i \in PlayerIds : players[i].connected /\ players[i].last_activity < clock


\* ------------------------------------------------------------------------
\* C21. Duel: a broadcast hands the message to send_json once for every
\* connected participant and for nobody else, whatever the outcome of each
\* send: a send that fails does not keep the message from the participants
\* after it.
\* ------------------------------------------------------------------------
C21_BroadcastReachesEveryConnected ==
    DuelReady =>
        \A oks \in SendOutcomes(MAX_CLIENTS) :
            LET g == broadcast_to_all(Cur, create_message("game_start"), oks)
            IN /\ \A i \in PlayerIds :
                     Cardinality(SentTo(g, i, "game_start")) =
                         IF players[i].connected THEN 1 ELSE 0
               /\ Len(g.sent) = Cardinality(Connected(Cur))

\* the first send of the guess_result broadcast of a guess fails, and the
\* second participant is sent the frame all the same
C21_Witness ==
    /\ DuelReady
    /\ state = "GAME_PLAYING"
    /\ Connected(Cur) = PlayerIds
    /\ \E pid \in Dispatchable : \E in \in GuessInputs : \E oks \in OutcomesOf(pid, in) :
          LET g == handle_client_message(Cur, pid, in, oks)
          IN /\ Len(g.sent) >= 2
             /\ g.sent[1].action = "guess_result" /\ ~g.sent[1].ok /\ g.sent[1].to = 0
             /\ g.sent[2].action = "guess_result" /\ g.sent[2].to = 1


\* ------------------------------------------------------------------------
\* C22. Duel: every set_number or guess message the server does not accept
\* (no number_set and no guess_result comes of it) is answered with an
\* error message to its sender: the wrong sub-state, an invalid code and a
\* missing number or guess field alike.
\* ------------------------------------------------------------------------
Accepted(g) ==
    \E k \in 1 .. Len(g.sent) : g.sent[k].action \in {"number_set", "guess_result"}

C22_RejectedRequestIsAnswered ==
    DuelReady =>
        \A pid \in Dispatchable : \A in \in SetNumberInputs \cup GuessInputs :
            \A oks \in OutcomesOf(pid, in) :
                LET g == handle_client_message(Cur, pid, in, oks)
                IN ~Accepted(g) => SentTo(g, pid, "error") # {}


\* ------------------------------------------------------------------------
\* C23. Duel: the server hands a participant's messages to its socket in
\* the order it issues them, and a stream socket keeps that order: a
\* game_start sent to a participant comes after the assign_id sent to it,
\* and every guess_result a guess produces is sent to a participant before
\* the your_turn, wait_turn or game_over the same guess produces for it.
\* ------------------------------------------------------------------------
TurnNotices(g, i) ==
    SentTo(g, i, "your_turn") \cup SentTo(g, i, "wait_turn") \cup SentTo(g, i, "game_over")

C23_MessagesKeepIssueOrder ==
    DuelReady =>
        /\ \A oks \in SendOutcomes(SendsOfAccept(Cur)) :
              LET g == main_listen(Cur, oks)
              IN \A i \in PlayerIds : \A k \in SentTo(g, i, "game_start") :
                    \/ players[i].connected
                    \/ \E l \in SentTo(g, i, "assign_id") : l < k
        /\ \A pid \in Dispatchable : \A in \in GuessInputs : \A oks \in OutcomesOf(pid, in) :
              LET g == handle_client_message(Cur, pid, in, oks)
              IN \A i \in PlayerIds : \A k \in TurnNotices(g, i) :
                    /\ SentTo(g, i, "guess_result") # {}
                    /\ \A l \in SentTo(g, i, "guess_result") : l < k

\* a guess that does not win: its guess_result and then the turn notice
\* are both delivered to each of the two participants
C23_Witness ==
    /\ DuelReady
    /\ state = "GAME_PLAYING"
    /\ \E pid \in Dispatchable : \E in \in GuessInputs : \E oks \in OutcomesOf(pid, in) :
          LET g == handle_client_message(Cur, pid, in, oks)
          IN \A i \in PlayerIds :
                \E l \in SentTo(g, i, "guess_result") :
                    \E k \in SentTo(g, i, "your_turn") \cup SentTo(g, i, "wait_turn") :
                        l < k /\ g.sent[l].ok /\ g.sent[k].ok


\* ------------------------------------------------------------------------
\* Vocabulary of the properties of the world variant
\* ------------------------------------------------------------------------
WorldReady == variant = "world" /\ pc = "select"

\* the slots main can dispatch a client message for
WorldDispatchable ==
    {i \in WorldIds : /\ w_players[i].connected
                      /\ w_players[i].sockfd \in master_set
                      /\ WorldFindPlayer(WCur, w_players[i].sockfd) = i}

\* the states one more pass of the main loop can leave: an accept, a
\* message of a client, or the timeout of select()
WorldSteps ==
    {world_main_listen(WCur, oks) : oks \in SendOutcomes(1)}
    \cup {handle_client_msg(WCur, pid, in, AllSent, live) :
              pid \in WorldDispatchable, in \in WorldInputs, live \in OverReads}
    \cup {world_main_timeout(WCur, ev, [k \in 1 .. WORLD_MAX_CLIENTS |-> TRUE]) :
              ev \in EventDraws}

HasBase(gs, i) == gs.players[i].base_x # -1

BaseBuildings(gs, i) ==
    {k \in 1 .. Len(gs.players[i].buildings) : gs.players[i].buildings[k].type = TILE_BASE}

Reported(snapshot, i) == {p \in snapshot.players : p.player_id = i}

C26_ReportedCountriesAreUnique ==
    WorldReady =>
        LET snapshot == game_state_to_json(gstate, player_num)
        IN \A i \in WorldConnected(WCur) : \A j \in WorldConnected(WCur) :
              \A p \in Reported(snapshot, i) : \A q \in Reported(snapshot, j) :
                  (i # j /\ p.country # 0) => p.country # q.country

\* C25: place_base returns failure and leaves the map and all participant
\* data unchanged exactly when the cell is outside the 16x16 grid, the tile
\* is not Empty or the participant already has a base; otherwise it makes
\* the tile Base, records the position and appends exactly one Base building
\* with 100 hit points at that position
PlaceBaseRefused(gs, p, x, y) ==
    IF ~(x \in 0 .. 15 /\ y \in 0 .. 15) THEN TRUE
    ELSE gs.map[<<y, x>>] # TILE_EMPTY \/ HasBase(gs, p)

C25_PlaceBaseContract ==
    call = "game_logic" =>
        \A p \in RulePlayers : \A x \in Coords : \A y \in Coords :
            LET r == place_base(gstate, p, x, y)
                was == gstate.players[p]
                now == r.state.players[p]
            IN IF PlaceBaseRefused(gstate, p, x, y)
               THEN r.result = -1 /\ r.state = gstate
               ELSE /\ r.result = 0
                    /\ r.state.map = [gstate.map EXCEPT ![<<y, x>>] = TILE_BASE]
                    /\ now.base_x = x /\ now.base_y = y
                    /\ Len(now.buildings) = Len(was.buildings) + 1
                    /\ SubSeq(now.buildings, 1, Len(was.buildings)) = was.buildings
                    /\ now.buildings[Len(now.buildings)].type = TILE_BASE
                    /\ now.buildings[Len(now.buildings)].hp = 100
                    /\ now.buildings[Len(now.buildings)].x = x
                    /\ now.buildings[Len(now.buildings)].y = y
                    /\ now.units = was.units /\ now.country = was.country
                    /\ \A q \in WorldIds \ {p} : r.state.players[q] = gstate.players[q]

\* one participant has placed its base; another one, without a base, is
\* refused that cell and is given the Empty cell (1, 1)
C25_Witness ==
    /\ call = "game_logic"
    /\ \E p \in RulePlayers : \E q \in RulePlayers :
          /\ HasBase(gstate, p)
          /\ gstate.map[<<gstate.players[p].base_y, gstate.players[p].base_x>>] = TILE_BASE
          /\ ~HasBase(gstate, q)
          /\ place_base(gstate, q, gstate.players[p].base_x,
                        gstate.players[p].base_y).result = -1
          /\ place_base(gstate, q, 1, 1).result = 0

\* C27: produce_unit fails and changes nothing when the participant has no
\* base; with a base, a valid unit type and at least one Empty in-bounds cell
\* among the base's 8 neighbours it succeeds, and the new unit stands on the
\* first Empty neighbour in row-major order (dy then dx, each from -1 to 1)
\* with the hit points, attack and defense of its type
EmptyNeighbours(gs, p) ==
    {d \in (-1 .. 1) \X (-1 .. 1) :
        LET nx == gs.players[p].base_x + d[2]
            ny == gs.players[p].base_y + d[1]
        IN /\ d # <<0, 0>>
           /\ nx \in 0 .. 15 /\ ny \in 0 .. 15
           /\ gs.map[<<ny, nx>>] = TILE_EMPTY}

\* d[1] is dy and d[2] is dx
RowMajorFirst(N) == CHOOSE d \in N : \A e \in N : d[1] * 3 + d[2] <= e[1] * 3 + e[2]

\* hitPoints, attack, defense of Worker, Soldier, Tank, Drone
FixedStats == <<<<30, 5, 2>>, <<50, 10, 5>>, <<100, 20, 15>>, <<20, 15, 1>>>>

C27_ProduceUnitContract ==
    call = "game_logic" =>
        \A p \in RulePlayers : \A t \in -1 .. 4 : \A live \in OverReads :
            LET r == produce_unit(gstate, p, t, live)
                was == gstate.players[p].units
                now == r.state.players[p].units
                N == EmptyNeighbours(gstate, p)
            IN /\ ~HasBase(gstate, p) => (r.result = -1 /\ r.state = gstate)
               /\ (HasBase(gstate, p) /\ t \in 0 .. 3 /\ N # {}) =>
                     /\ r.result = 0
                     /\ Len(now) = Len(was) + 1
                     /\ SubSeq(now, 1, Len(was)) = was
                     /\ now[Len(now)].type = t
                     /\ now[Len(now)].owner_id = p
                     /\ now[Len(now)].x = gstate.players[p].base_x + RowMajorFirst(N)[2]
                     /\ now[Len(now)].y = gstate.players[p].base_y + RowMajorFirst(N)[1]
                     /\ <<now[Len(now)].hp, now[Len(now)].attack, now[Len(now)].defense>>
                           = FixedStats[t + 1]
                     /\ r.state.map = gstate.map
                     /\ \A q \in WorldIds \ {p} : r.state.players[q] = gstate.players[q]

\* a participant with a base has produced a unit that still stands where it
\* was put, past neighbours of the base that are in the grid and not Empty
C27_Witness ==
    /\ call = "game_logic"
    /\ \E p \in RulePlayers :
          /\ HasBase(gstate, p)
          /\ Len(gstate.players[p].units) = 1
          /\ gstate.players[p].units[1].moving = 0
          /\ EmptyNeighbours(gstate, p) # {}
          /\ gstate.players[p].units[1].x
                = gstate.players[p].base_x + RowMajorFirst(EmptyNeighbours(gstate, p))[2]
          /\ gstate.players[p].units[1].y
                = gstate.players[p].base_y + RowMajorFirst(EmptyNeighbours(gstate, p))[1]
          /\ gstate.map[<<0, 1>>] = TILE_RESOURCE
          /\ gstate.players[p].base_x = 0 /\ gstate.players[p].base_y = 0
          /\ \A live \in OverReads : produce_unit(gstate, p, UNIT_DRONE, live).result = 0
    /\ \E q \in RulePlayers : ~HasBase(gstate, q)

\* C28: move_unit and attack_unit fail whenever the Manhattan distance to
\* the target (cell or unit) is not exactly 1; move_unit also fails when the
\* target is out of bounds, not Empty, or the unit is not the participant's;
\* a failed move or attack leaves every unit's position and hit points and
\* every unit list unchanged.  A unit id is read as any unit that bears it.
Bearers(gs, q, id) ==
    {k \in 1 .. Len(gs.players[q].units) : gs.players[q].units[k].unit_id = id}

\* the units of p bearing the id that stand at Manhattan distance 1 of (x, y)
NextTo(gs, p, id, x, y) ==
    {k \in Bearers(gs, p, id) :
        Abs(x - gs.players[p].units[k].x) + Abs(y - gs.players[p].units[k].y) = 1}

MoveRefused(gs, p, id, x, y) ==
    IF ~(x \in 0 .. 15 /\ y \in 0 .. 15) THEN TRUE
    ELSE gs.map[<<y, x>>] # TILE_EMPTY \/ NextTo(gs, p, id, x, y) = {}

\* no unit of p bearing id a stands at distance 1 of a unit bearing id t
AttackOutOfReach(gs, p, a, t) ==
    \A q \in WorldIds : \A j \in Bearers(gs, q, t) :
        NextTo(gs, p, a, gs.players[q].units[j].x, gs.players[q].units[j].y) = {}

Count(units, u) == Cardinality({i \in 1 .. Len(units) : units[i] = u})

\* the list `now` holds the units of `was` less one occurrence of `gone`
LessOne(now, was, gone) ==
    /\ Len(now) = Len(was) - 1
    /\ \A i \in 1 .. Len(was) :
          Count(now, was[i]) = Count(was, was[i]) - (IF was[i] = gone THEN 1 ELSE 0)

\* the first unit of q's list that bears the id
FirstBearer(gs, q, id) == Min(Bearers(gs, q, id))

C29_AttackContract ==
    call = "game_logic" =>
        \A p \in RulePlayers : \A a \in RuleUnitIds : \A t \in RuleUnitIds :
            LET r == attack_unit(gstate, p, a, t)
            IN r.result = 0 =>
                 \E q \in WorldIds :
                    /\ Bearers(gstate, p, a) # {} /\ Bearers(gstate, q, t) # {}
                    /\ LET k == FirstBearer(gstate, p, a)
                           j == FirstBearer(gstate, q, t)
                           att == gstate.players[p].units[k]
                           tgt == gstate.players[q].units[j]
                           d == IF att.attack - tgt.defense > 1
                                THEN att.attack - tgt.defense ELSE 1
                       IN IF tgt.hp - d > 0
                          THEN r.state = [gstate EXCEPT !.players[q].units[j].hp = tgt.hp - d]
                          ELSE /\ LessOne(r.state.players[q].units,
                                          gstate.players[q].units, tgt)
                               /\ r.state.map = gstate.map
                               /\ \A o \in WorldIds \ {q} :
                                     r.state.players[o] = gstate.players[o]
                               /\ r.state.players[q].base_x = gstate.players[q].base_x
                               /\ r.state.players[q].base_y = gstate.players[q].base_y
                               /\ r.state.players[q].buildings = gstate.players[q].buildings

\* a participant's list holds a drone that was hit before and, after it, a
\* tank on a cell next to it: the tank's blow removes the drone, which is not
\* the last of its list, and the drone's blow on the tank takes 1 hit point
C29_Witness ==
    /\ call = "game_logic"
    /\ \E p \in RulePlayers :
          /\ Len(gstate.players[p].units) = 2
          /\ LET drone == gstate.players[p].units[1]
                 tank == gstate.players[p].units[2]
             IN /\ drone.type = UNIT_DRONE /\ drone.hp < 20
                /\ tank.type = UNIT_TANK
                /\ drone.unit_id # tank.unit_id
                /\ LET kill == attack_unit(gstate, p, tank.unit_id, drone.unit_id)
                       graze == attack_unit(gstate, p, drone.unit_id, tank.unit_id)
                   IN /\ kill.result = 0
                      /\ kill.state.players[p].units = <<tank>>
                      /\ graze.result = 0
                      /\ graze.state.players[p].units[2].hp = tank.hp - 1

\* C30: when a tick finds exactly one participant with a placed, undestroyed
\* base after at least two participants have had live bases, the terminal
\* flag 99 is set, game_over is broadcast to every connected participant and
\* the server process halts; game_over is never broadcast before two live
\* bases have existed
LiveBases(gs) ==
    {i \in WorldIds :
        /\ HasBase(gs, i)
        /\ \E k \in 1 .. Len(gs.players[i].buildings) :
              /\ gs.players[i].buildings[k].type = TILE_BASE
              /\ gs.players[i].buildings[k].hp > 0}

\* the connected participants the tick w sent game_over to
ToldGameOver(w) == {i \in WorldConnected(w) : SentTo(w, i, "game_over") # {}}

C30_LastBaseEndsTheGame ==
    WorldReady =>
        \A ev \in EventDraws : \A oks \in SendOutcomes(Cardinality(WorldConnected(WCur))) :
            LET w == world_main_timeout(WCur, ev, oks)
            IN /\ (Cardinality(LiveBases(gstate)) = 1 /\ gstate.ever_had_two_bases) =>
                     /\ w.gstate.event_flag = 99
                     /\ ToldGameOver(w) = WorldConnected(WCur)
                     /\ w.pc = "exit"
               /\ ToldGameOver(w) # {} => gstate.ever_had_two_bases


\* C31: when a tick does not meet the win condition (exactly one live base
\* after two have been alive), it clears only the terminal flag: an
\* earthquake (1) or blackout (2) flag rolled in the same tick is the
\* event_flag of the game state after the tick and of every update_state
\* snapshot the tick sends, whatever the number of live bases
WinCondition(gs) == AliveCount(gs) = 1 /\ gs.ever_had_two_bases

SnapshotFlags(w) ==
    {w.sent[k].state.event_flag : k \in {j \in 1 .. Len(w.sent) : w.sent[j].action = "update_state"}}

C31_TickClearsOnlyTerminalFlag ==
    WorldReady =>
        \A ev \in {1, 2} : \A oks \in SendOutcomes(Cardinality(WorldConnected(WCur))) :
            LET w == world_main_timeout(WCur, ev, oks)
            IN ~WinCondition(gstate) =>
                  /\ w.gstate.event_flag = ev
                  /\ SnapshotFlags(w) \subseteq {ev}


\* C32: every update_state frame that the next pass of the world server's
\* main loop writes with send_json carries a 2-byte length prefix equal to
\* the byte length of its body, and a body no longer than the 4096 bytes
\* that recv_json accepts
UpdateStateFrames(w) == {k \in 1 .. Len(w.sent) : w.sent[k].action = "update_state"}

C32_FramesAreAcceptedByPeer ==
    WorldReady =>
        \A w \in WorldSteps : \A k \in UpdateStateFrames(w) :
            LET len == update_state_strlen(w.sent[k])
            IN recv_json_accepts(send_json_netlen(len), len)


\* C33: duel: no participant's attempts counter ever exceeds MAX_ATTEMPTS
\* (10) within a match
C33_AttemptsWithinMax ==
    variant = "duel" => \A i \in PlayerIds : players[i].attempts <= MAX_ATTEMPTS


\* C34: duel: between two passes of the main loop, players_ready is the
\* number of slots whose connected flag is set
C34_ReadyCountsConnected ==
    DuelReady => players_ready = Cardinality(Connected(Cur))


\* C35: duel: between two passes of the main loop, whenever the session is
\* GAME_PLAYING both slots are connected, exactly one participant is in
\* PLAYER_TURN, that participant is current_turn, and the other is in
\* PLAYER_WAITING_TURN
C35_ActiveHasOneActor ==
    (DuelReady /\ state = "GAME_PLAYING") =>
        /\ \A i \in PlayerIds : players[i].connected
        /\ {i \in PlayerIds : players[i].state = "PLAYER_TURN"} = {current_turn}
        /\ players[1 - current_turn].state = "PLAYER_WAITING_TURN"


\* C36 as stated: no message the server sends to a participant, other than
\* the game_over of a winning guess, contains the secret code of the other
\* participant
CodeOf(i) == CStr(players[i].secret_number)

TextsOf(jmsg) == {jmsg.guess, jmsg.your_number, jmsg.opponent_number} \ {<<>>}

C36_SecretNotInMessages ==
    DuelReady =>
        \A pid \in Dispatchable : \A in \in ClientInputs : \A oks \in OutcomesOf(pid, in) :
            LET g == handle_client_message(Cur, pid, in, oks)
            IN \A k \in 1 .. Len(g.sent) :
                  (/\ g.sent[k].to \in PlayerIds
                   /\ ~(g.sent[k].action = "game_over" /\ WinningGuess(pid, in))) =>
                      CodeOf(1 - g.sent[k].to) \notin TextsOf(g.sent[k])

\* C36: the only messages into which the server copies a secret code are the
\* game_over messages of a winning guess, in your_number and
\* opponent_number; the only other text a message carries is the guess of a
\* guess_result, which is the guess as it was received (it is the opponent's
\* code when the guess wins, and may be the guesser's own code)
C36_SecretOnlyInGameOver ==
    DuelReady =>
        /\ \A oks \in SendOutcomes(SendsOfAccept(Cur)) :
              \A k \in 1 .. Len(main_listen(Cur, oks).sent) :
                  TextsOf(main_listen(Cur, oks).sent[k]) = {}
        /\ \A pid \in Dispatchable : \A in \in ClientInputs :
              \A oks \in OutcomesOf(pid, in) :
                  LET g == handle_client_message(Cur, pid, in, oks)
                  IN \A k \in 1 .. Len(g.sent) :
                        /\ (g.sent[k].your_number # <<>> \/ g.sent[k].opponent_number # <<>>) =>
                               (g.sent[k].action = "game_over" /\ WinningGuess(pid, in))
                        /\ g.sent[k].guess # <<>> =>
                               (g.sent[k].action = "guess_result" /\ g.sent[k].guess = in.val)

\* a match is on with both codes set and both participants connected: one
\* of them leaves and the other is sent the victory notice, and the one in
\* turn can make a guess that misses and is reported to the opponent
C36_Witness ==
    /\ DuelReady
    /\ state = "GAME_PLAYING"
    /\ Connected(Cur) = PlayerIds
    /\ Dispatchable = PlayerIds
    /\ \A i \in PlayerIds : code_set[i]
    /\ \E pid \in PlayerIds :
          LET g == handle_client_message(Cur, pid, CloseInput, AllSent)
          IN SentTo(g, 1 - pid, "game_over") # {}
    /\ \E pid \in PlayerIds : \E in \in GuessInputs :
          /\ players[pid].state = "PLAYER_TURN"
          /\ in.has /\ is_valid_number(in.val) /\ ~WinningGuess(pid, in)
          /\ SentTo(handle_client_message(Cur, pid, in, AllSent), 1 - pid, "guess_result") # {}


\* C37: after any sequence of place-base, produce, move and attack commands
\* the units of all participants have pairwise distinct unit ids
UnitSlots(gs) ==
    UNION {{<<p, k>> : k \in 1 .. Len(gs.players[p].units)} : p \in WorldIds}

C37_UnitIdsAreDistinct ==
    call = "game_logic" =>
        \A s \in UnitSlots(gstate) : \A t \in UnitSlots(gstate) :
            s # t => gstate.players[s[1]].units[s[2]].unit_id
                         # gstate.players[t[1]].units[t[2]].unit_id


\* C38: in every state of the world server each participant's unit_count is
\* within 0 .. 100 and building_count within 0 .. 50, the capacities of
\* units[] and buildings[]
C38_CountsWithinCapacity ==
    variant = "world" =>
        \A i \in WorldIds :
            /\ Len(gstate.players[i].units) \in 0 .. UNITS_CAPACITY
            /\ Len(gstate.players[i].buildings) \in 0 .. BUILDINGS_CAPACITY


\* C39: no pass of the world server's main loop (accept, command, tick)
\* changes the hit points of a building; every Base building has 100 hit
\* points in every state, so is_base_destroyed is false for every
\* participant that has placed a base, and no pass lowers the number of
\* live bases
C39_BuildingsKeepHitPoints ==
    WorldReady =>
        /\ \A i \in WorldIds : \A k \in BaseBuildings(gstate, i) :
              gstate.players[i].buildings[k].hp = BASE_HP
        /\ \A i \in WorldIds : HasBase(gstate, i) => ~is_base_destroyed(gstate, i)
        /\ \A w \in WorldSteps :
              /\ \A i \in WorldIds : \A k \in 1 .. Len(gstate.players[i].buildings) :
                    /\ k <= Len(w.gstate.players[i].buildings)
                    /\ w.gstate.players[i].buildings[k].hp = gstate.players[i].buildings[k].hp
              /\ Cardinality(LiveBases(w.gstate)) >= Cardinality(LiveBases(gstate))


\* C40: for every pair of valid codes a and b, calculate_result(a, b) and
\* calculate_result(b, a) return the same strikes, balls and is_correct, and
\* strikes + balls is at most 3
C40_ScoreIsSymmetric ==
    (call = "calculate_result" /\ ret.done) =>
        /\ ret.value = calculate_result(args[2], args[1])
        /\ ret.value.strikes + ret.value.balls <= NUMBER_LENGTH

\* calculate_result has returned for two codes that share exactly two
\* digits, both out of place
C40_Witness ==
    /\ call = "calculate_result"
    /\ ret.done
    /\ ret.value.strikes = 0
    /\ ret.value.balls = 2
    /\ {args[1][i] : i \in 1 .. NUMBER_LENGTH} # {args[2][i] : i \in 1 .. NUMBER_LENGTH}

=============================================================================
